---- MODULE Spec2Model ----
(***************************************************************************)
(* Model of the genre-aware field-mapping layer of the book-market         *)
(* dashboard: shared/data_mapping.py (class DataMapper).                   *)
(*                                                                         *)
(* Python text (str) is a sequence of one-character strings, so that       *)
(* str(), float(), int(), the format specifications and str.title() are    *)
(* computed character by character.  Dictionary keys (column names) are    *)
(* TLA+ strings; a dictionary is a function on a set of keys.              *)
(***************************************************************************)
EXTENDS Integers, Sequences, FiniteSets, TLC

VARIABLES mapper, last, df, registry, db

vars == <<mapper, last, df, registry, db>>

(***************************************************************************)
(* Bounds of the input domains.                                            *)
(***************************************************************************)
\* whole numbers 0..MaxWhole are drawn as int values, as float values and as
\* the integer part of fractional ratings
MaxWhole == 2

(***************************************************************************)
(* Characters.                                                             *)
(***************************************************************************)
LowerChars == <<"a","b","c","d","e","f","g","h","i","j","k","l","m",
                "n","o","p","q","r","s","t","u","v","w","x","y","z">>

UpperChars == <<"A","B","C","D","E","F","G","H","I","J","K","L","M",
                "N","O","P","Q","R","S","T","U","V","W","X","Y","Z">>

DigitChars == <<"0","1","2","3","4","5","6","7","8","9">>

Range(f) == {f[i] : i \in DOMAIN f}

IndexOf(seq, c) == CHOOSE i \in DOMAIN seq : seq[i] = c

IsLower(c) == c \in Range(LowerChars)

IsUpper(c) == c \in Range(UpperChars)

IsDigit(c) == c \in Range(DigitChars)

\* str.isalpha on the characters modelled: the cased characters
IsCased(c) == IsLower(c) \/ IsUpper(c)

ToUpper(c) == IF IsLower(c) THEN UpperChars[IndexOf(LowerChars, c)] ELSE c

ToLower(c) == IF IsUpper(c) THEN LowerChars[IndexOf(UpperChars, c)] ELSE c

DigitVal(c) == IndexOf(DigitChars, c) - 1

LowerText(s) == [i \in DOMAIN s |-> ToLower(s[i])]

(***************************************************************************)
(* Python values: None, str, int, float, bool.  A float is held in tenths  *)
(* (n = 123 is 12.3) with k telling finite from nan, inf and -inf.         *)
(***************************************************************************)
PyNone == [t |-> "none", n |-> 0, s |-> <<>>, k |-> "fin"]

PyStr(s) == [t |-> "str", n |-> 0, s |-> s, k |-> "fin"]

PyInt(n) == [t |-> "int", n |-> n, s |-> <<>>, k |-> "fin"]

PyFloat(tenths) == [t |-> "float", n |-> tenths, s |-> <<>>, k |-> "fin"]

PyNaN == [t |-> "float", n |-> 0, s |-> <<>>, k |-> "nan"]

PyInf == [t |-> "float", n |-> 0, s |-> <<>>, k |-> "inf"]

PyNegInf == [t |-> "float", n |-> 0, s |-> <<>>, k |-> "ninf"]

PyBool(b) == [t |-> "bool", n |-> IF b THEN 1 ELSE 0, s |-> <<>>, k |-> "fin"]

\* outcome of a call: a returned value or a raised exception
Return(v) == [kind |-> "return", v |-> v, exc |-> "none"]

Raise(e) == [kind |-> "raise", v |-> PyNone, exc |-> e]

Returned(r) == r.kind = "return"

\* truth value of a Python value (bool(v))
Truthy(v) ==
    CASE v.t = "none" -> FALSE
      [] v.t = "str" -> v.s # <<>>
      [] v.t = "float" -> v.k # "fin" \/ v.n # 0
      [] OTHER -> v.n # 0

(***************************************************************************)
(* Number to text.                                                         *)
(***************************************************************************)
Abs(n) == IF n < 0 THEN -n ELSE n

RECURSIVE NatText(_)
NatText(n) ==
    IF n < 10 THEN <<DigitChars[n + 1]>>
    ELSE NatText(n \div 10) \o <<DigitChars[(n % 10) + 1]>>

SignText(n) == IF n < 0 THEN <<"-">> ELSE <<>>

IntText(n) == SignText(n) \o NatText(Abs(n))

\* a finite float with `decimals` digits after the point (format spec .Nf);
\* the value is held in tenths, so the digits after the first are zeros
RECURSIVE Zeros(_)
Zeros(n) == IF n <= 0 THEN <<>> ELSE <<"0">> \o Zeros(n - 1)

FixedText(tenths, decimals) ==
    SignText(tenths) \o NatText(Abs(tenths) \div 10) \o <<".">>
        \o <<DigitChars[(Abs(tenths) % 10) + 1]>> \o Zeros(decimals - 1)

NonFiniteText(k) ==
    CASE k = "nan" -> <<"n","a","n">>
      [] k = "inf" -> <<"i","n","f">>
      [] k = "ninf" -> <<"-","i","n","f">>

\* format(x, ".Nf") for a float x
FormatFixed(x, decimals) ==
    IF x.k = "fin" THEN FixedText(x.n, decimals) ELSE NonFiniteText(x.k)

\* format(n, ",") for an int n
RECURSIVE GroupNat(_)
GroupNat(n) ==
    IF n < 1000 THEN NatText(n)
    ELSE GroupNat(n \div 1000) \o <<",">>
            \o <<DigitChars[((n % 1000) \div 100) + 1],
                 DigitChars[((n % 100) \div 10) + 1],
                 DigitChars[(n % 10) + 1]>>

FormatGrouped(n) == SignText(n) \o GroupNat(Abs(n))

\* str(v)
StrOf(v) ==
    CASE v.t = "none" -> <<"N","o","n","e">>
      [] v.t = "str" -> v.s
      [] v.t = "int" -> IntText(v.n)
      [] v.t = "float" -> FormatFixed(v, 1)
      [] v.t = "bool" -> IF v.n = 1 THEN <<"T","r","u","e">>
                         ELSE <<"F","a","l","s","e">>

(***************************************************************************)
(* Text to number: the str branches of float() and int().                  *)
(***************************************************************************)
IsSpace(c) == c \in {" ", "\t", "\n"}

RECURSIVE LStrip(_)
LStrip(s) == IF s # <<>> /\ IsSpace(s[1]) THEN LStrip(Tail(s)) ELSE s

RECURSIVE RStrip(_)
RStrip(s) ==
    IF s # <<>> /\ IsSpace(s[Len(s)]) THEN RStrip(SubSeq(s, 1, Len(s) - 1))
    ELSE s

\* str.strip()
Strip(s) == RStrip(LStrip(s))

HasSign(s) == s # <<>> /\ s[1] \in {"+", "-"}

Unsigned(s) == IF HasSign(s) THEN Tail(s) ELSE s

SignOf(s) == IF s # <<>> /\ s[1] = "-" THEN -1 ELSE 1

\* a digit string of a numeric literal: digits, single underscores between them
IsDigits(d) ==
    /\ d # <<>>
    /\ \A i \in DOMAIN d : IsDigit(d[i]) \/ d[i] = "_"
    /\ IsDigit(d[1]) /\ IsDigit(d[Len(d)])
    /\ \A i \in 1..(Len(d) - 1) : ~(d[i] = "_" /\ d[i + 1] = "_")

RECURSIVE DigitsVal(_)
DigitsVal(d) ==
    IF d = <<>> THEN 0
    ELSE IF d[Len(d)] = "_" THEN DigitsVal(SubSeq(d, 1, Len(d) - 1))
    ELSE 10 * DigitsVal(SubSeq(d, 1, Len(d) - 1)) + DigitVal(d[Len(d)])

\* int(text): [ok, n]
ParseInt(s) ==
    LET body == Unsigned(Strip(s))
    IN  IF IsDigits(body)
        THEN [ok |-> TRUE, n |-> SignOf(Strip(s)) * DigitsVal(body)]
        ELSE [ok |-> FALSE, n |-> 0]

DotPositions(s) == {i \in DOMAIN s : s[i] = "."}

\* float(text): [ok, x].  Decimal literals without exponent and the words
\* inf, infinity and nan; the value keeps the first fractional digit.
ParseFloat(s) ==
    LET t == Strip(s)
        body == Unsigned(t)
        word == LowerText(body)
        dots == DotPositions(body)
        dot == IF dots = {} THEN Len(body) + 1 ELSE CHOOSE i \in dots : TRUE
        whole == SubSeq(body, 1, dot - 1)
        frac == SubSeq(body, dot + 1, Len(body))
        tenths == 10 * DigitsVal(whole)
                    + (IF frac = <<>> THEN 0 ELSE DigitVal(frac[1]))
    IN  IF word \in {<<"i","n","f">>, <<"i","n","f","i","n","i","t","y">>}
        THEN [ok |-> TRUE, x |-> IF SignOf(t) = -1 THEN PyNegInf ELSE PyInf]
        ELSE IF word = <<"n","a","n">>
        THEN [ok |-> TRUE, x |-> PyNaN]
        ELSE IF /\ Cardinality(dots) <= 1
                /\ whole # <<>> \/ frac # <<>>
                /\ whole = <<>> \/ IsDigits(whole)
                /\ frac = <<>> \/ IsDigits(frac)
        THEN [ok |-> TRUE, x |-> PyFloat(SignOf(t) * tenths)]
        ELSE [ok |-> FALSE, x |-> PyNaN]

\* float(v): [exc, x] with exc = "none" when the conversion succeeds
FloatOf(v) ==
    CASE v.t = "float" -> [exc |-> "none", x |-> v]
      [] v.t \in {"int", "bool"} -> [exc |-> "none", x |-> PyFloat(10 * v.n)]
      [] v.t = "str" ->
            IF ParseFloat(v.s).ok
            THEN [exc |-> "none", x |-> ParseFloat(v.s).x]
            ELSE [exc |-> "ValueError", x |-> PyNaN]
      [] v.t = "none" -> [exc |-> "TypeError", x |-> PyNaN]

\* truncation toward zero of a value held in tenths
Trunc(tenths) == IF tenths < 0 THEN -(Abs(tenths) \div 10) ELSE tenths \div 10

\* int(v): [exc, n] with exc = "none" when the conversion succeeds
IntOf(v) ==
    CASE v.t \in {"int", "bool"} -> [exc |-> "none", n |-> v.n]
      [] v.t = "float" ->
            IF v.k = "fin" THEN [exc |-> "none", n |-> Trunc(v.n)]
            ELSE IF v.k = "nan" THEN [exc |-> "ValueError", n |-> 0]
            ELSE [exc |-> "OverflowError", n |-> 0]
      [] v.t = "str" ->
            IF ParseInt(v.s).ok
            THEN [exc |-> "none", n |-> ParseInt(v.s).n]
            ELSE [exc |-> "ValueError", n |-> 0]
      [] v.t = "none" -> [exc |-> "TypeError", n |-> 0]

(***************************************************************************)
(* str.replace('_', ' ') and str.title().                                  *)
(***************************************************************************)
ReplaceUnderscores(s) == [i \in DOMAIN s |-> IF s[i] = "_" THEN " " ELSE s[i]]

\* str.title(): a cased character that follows an uncased one (or starts the
\* text) becomes upper case, one that follows a cased character lower case
Title(s) ==
    [i \in DOMAIN s |->
        IF i > 1 /\ IsCased(s[i - 1]) THEN ToLower(s[i]) ELSE ToUpper(s[i])]

(***************************************************************************)
(* Containers returned by yaml.safe_load: list and dict.                   *)
(***************************************************************************)
PyList(items) == [t |-> "list", n |-> 0, s |-> <<>>, k |-> "fin", items |-> items]

PyDict(m) == [t |-> "dict", n |-> 0, s |-> <<>>, k |-> "fin", m |-> m]

EmptyDict == PyDict(<<>>)

IsDict(v) == v.t = "dict"

\* bool(v) for the values a mapping document can hold
DocTruthy(v) ==
    CASE v.t = "list" -> v.items # <<>>
      [] v.t = "dict" -> DOMAIN v.m # {}
      [] OTHER -> Truthy(v)

\* dict.get(key, default) on a dict value
DictGet(d, key, default) == IF key \in DOMAIN d.m THEN d.m[key] ELSE default

\* d[key] = v
Put(d, key, v) == [x \in DOMAIN d \cup {key} |-> IF x = key THEN v ELSE d[x]]

(***************************************************************************)
(* DataMapper construction.  A mapping document is                         *)
(*   [src |-> "missing"]            open() raises FileNotFoundError        *)
(*   [src |-> "invalid"]            yaml.safe_load raises YAMLError        *)
(*   [src |-> "parsed", top |-> v]  yaml.safe_load returns v               *)
(***************************************************************************)
_load_mapping(doc) ==
    IF doc.src \in {"missing", "invalid"} THEN EmptyDict
    ELSE IF DocTruthy(doc.top) THEN doc.top
    ELSE EmptyDict

\* self.mapping.get('genres', {}): [exc, v]
_extract_genre_mapping(mapping) ==
    IF ~IsDict(mapping) THEN [exc |-> "AttributeError", v |-> PyNone]
    ELSE [exc |-> "none", v |-> DictGet(mapping, "genres", EmptyDict)]

type_mapping ==
    [display |-> "DISPLAY", hyperlink |-> "HYPERLINK", image |-> "DISPLAY_IMAGE",
     ignore |-> "IGNORE", hyperlink_source |-> "IGNORE"]

\* type_mapping.get(display_type, FieldType.DISPLAY) for a hashable display_type
FieldTypeOf(display_type) ==
    IF display_type.t = "str"
        /\ \E key \in DOMAIN type_mapping : display_type = PyStr(key)
    THEN type_mapping[CHOOSE key \in DOMAIN type_mapping : display_type = PyStr(key)]
    ELSE "DISPLAY"

\* a column name as a str value, its text held as one token
KeyText(name) == PyStr(<<name>>)

FieldSpec(field_name, config) ==
    [field_name |-> field_name,
     display_name |-> DictGet(config, "display_name", KeyText(field_name)),
     field_type |-> FieldTypeOf(DictGet(config, "display_type", PyStr("display"))),
     description |-> DictGet(config, "format", PyNone),
     format_rule |-> PyNone]

Unhashable(v) == v.t \in {"list", "dict"}

\* [exc, v]: the field_specs dictionary, one FieldSpec per field whose
\* configuration is a dict
_extract_field_specs(mapping) ==
    IF ~IsDict(mapping) THEN [exc |-> "AttributeError", v |-> <<>>]
    ELSE LET fields_config == DictGet(mapping, "fields", EmptyDict)
         IN  IF ~IsDict(fields_config)
             THEN [exc |-> "AttributeError", v |-> <<>>]
             ELSE LET named == {f \in DOMAIN fields_config.m :
                                    IsDict(fields_config.m[f])}
                  IN  IF \E f \in named :
                            Unhashable(DictGet(fields_config.m[f], "display_type",
                                               PyStr("display")))
                      THEN [exc |-> "TypeError", v |-> <<>>]
                      ELSE [exc |-> "none",
                            v |-> [f \in named |->
                                        FieldSpec(f, fields_config.m[f])]]

\* DataMapper.__init__: [exc, obj]; the first failing step's exception escapes.
\* yaml_path holds the document the path names.
DataMapperInit(doc) ==
    LET mapping == _load_mapping(doc)
        genres == _extract_genre_mapping(mapping)
        specs == _extract_field_specs(mapping)
        exc == IF genres.exc # "none" THEN genres.exc ELSE specs.exc
    IN  [exc |-> exc,
         obj |-> IF exc # "none" THEN [built |-> FALSE]
                 ELSE [built |-> TRUE, yaml_path |-> doc, mapping |-> mapping,
                       genre_mapping |-> genres.v, field_specs |-> specs.v]]

(***************************************************************************)
(* DataMapper methods; self is the mapper object.                          *)
(***************************************************************************)
\* a method that drops the field rules it has used
SelfAfterCleared(self) == [self EXCEPT !.field_specs = <<>>]

\* self after a method has returned or raised: the methods assign to no
\* attribute of self and call nothing that changes a table
SelfAfter(self) == self

\* self.field_specs.get(field_name)
get_field_spec(self, field_name) ==
    IF field_name \in DOMAIN self.field_specs
    THEN Return(self.field_specs[field_name])
    ELSE Return(PyNone)

Names(list) == PyList([i \in DOMAIN list |-> KeyText(list[i])])

\* the three lists of the card display, each the configured value or its default
get_card_display_config(self) ==
    LET card_config == DictGet(self.mapping, "card_display", EmptyDict)
    IN  IF ~IsDict(card_config) THEN Raise("AttributeError")
        ELSE Return(
            [primary_fields |->
                DictGet(card_config, "primary_fields",
                        Names(<<"Title", "Author", "reviewAverage", "nReviews",
                                "price">>)),
             secondary_fields |->
                DictGet(card_config, "secondary_fields",
                        Names(<<"Series", "nPages", "releaseDate", "publisher">>)),
             expandable_fields |->
                DictGet(card_config, "expandable_fields",
                        Names(<<"blurbText", "topicTags", "subcatsList">>))])

get_genre_display_name(self, genre_code) ==
    IF ~IsDict(self.genre_mapping) THEN Raise("AttributeError")
    ELSE IF genre_code.t # "str" THEN Raise("AttributeError")
    ELSE Return(DictGet(self.genre_mapping, genre_code.s,
                        PyStr(Title(ReplaceUnderscores(genre_code.s)))))

\* the rule lookup that finds a rule for every field name
HasFieldSpecAlways(self, field_name) == TRUE

HasFieldSpec(self, field_name) == field_name \in DOMAIN self.field_specs

\* U+2B50, the star glyph of the rating format
StarGlyph == "*"

\* c * n: the empty text when n <= 0
Repeat(c, n) == [i \in 1..n |-> c]

\* the currency format with one decimal place
FormatPriceOneDecimal(value) ==
    IF FloatOf(value).exc = "none"
    THEN Return(PyStr(<<"$">> \o FormatFixed(FloatOf(value).x, 1)))
    ELSE Return(PyStr(StrOf(value)))

FormatPrice(value) ==
    IF FloatOf(value).exc = "none"
    THEN Return(PyStr(<<"$">> \o FormatFixed(FloatOf(value).x, 2)))
    ELSE Return(PyStr(StrOf(value)))

\* the rating format with the glyph count rounded to nearest, not truncated
FormatReviewAverageRounded(value) ==
    IF FloatOf(value).exc # "none" THEN Return(PyStr(StrOf(value)))
    ELSE LET rating == FloatOf(value).x
             count == IntOf(rating)
         IN  IF count.exc \in {"ValueError", "TypeError"}
             THEN Return(PyStr(StrOf(value)))
             ELSE IF count.exc # "none" THEN Raise(count.exc)
             ELSE Return(PyStr(Repeat(StarGlyph, (rating.n + 5) \div 10) \o <<" ">>
                                \o FormatFixed(rating, 1)))

FormatReviewAverage(value) ==
    IF FloatOf(value).exc # "none" THEN Return(PyStr(StrOf(value)))
    ELSE LET rating == FloatOf(value).x
             count == IntOf(rating)
         IN  IF count.exc \in {"ValueError", "TypeError"}
             THEN Return(PyStr(StrOf(value)))
             ELSE IF count.exc # "none" THEN Raise(count.exc)
             ELSE Return(PyStr(Repeat(StarGlyph, count.n) \o <<" ">>
                                \o FormatFixed(rating, 1)))

\* the count format without the thousands separator
FormatNReviewsUngrouped(value) ==
    LET count == IntOf(value)
    IN  IF count.exc \in {"ValueError", "TypeError"}
        THEN Return(PyStr(StrOf(value)))
        ELSE IF count.exc # "none" THEN Raise(count.exc)
        ELSE Return(PyStr(IntText(count.n)))

FormatNReviews(value) ==
    LET count == IntOf(value)
    IN  IF count.exc \in {"ValueError", "TypeError"}
        THEN Return(PyStr(StrOf(value)))
        ELSE IF count.exc # "none" THEN Raise(count.exc)
        ELSE Return(PyStr(FormatGrouped(count.n)))

\* the flag format without the isinstance(value, bool) test
FormatFlagTruthy(value, yes, no) ==
    Return(PyStr(IF Truthy(value) THEN yes ELSE no))

FormatFlag(value, yes, no) ==
    IF value.t = "bool" THEN Return(PyStr(IF value.n = 1 THEN yes ELSE no))
    ELSE Return(PyStr(StrOf(value)))

\* str.split(sep) for a one-character separator
RECURSIVE Split(_, _)
Split(s, sep) ==
    IF \A i \in DOMAIN s : s[i] # sep THEN <<s>>
    ELSE LET at == CHOOSE i \in DOMAIN s :
                        s[i] = sep /\ \A j \in 1..(i - 1) : s[j] # sep
         IN  <<SubSeq(s, 1, at - 1)>> \o Split(SubSeq(s, at + 1, Len(s)), sep)

\* ', '.join(items)
RECURSIVE Join(_)
Join(items) ==
    IF items = <<>> THEN <<>>
    ELSE IF Len(items) = 1 THEN items[1]
    ELSE items[1] \o <<",", " ">> \o Join(Tail(items))

\* [item.strip() for item in parts if item.strip()]
RECURSIVE StripItems(_)
StripItems(parts) ==
    IF parts = <<>> THEN <<>>
    ELSE IF Strip(parts[1]) = <<>> THEN StripItems(Tail(parts))
    ELSE <<Strip(parts[1])>> \o StripItems(Tail(parts))

Contains(s, c) == \E i \in DOMAIN s : s[i] = c

\* the list format with the two delimiters tried in the other order
FormatListHashFirst(value) ==
    IF value.t = "str" /\ Contains(value.s, "#")
    THEN Return(PyStr(Join(StripItems(Split(value.s, "#")))))
    ELSE IF value.t = "str" /\ Contains(value.s, "|")
    THEN Return(PyStr(Join(StripItems(Split(value.s, "|")))))
    ELSE Return(PyStr(StrOf(value)))

FormatList(value) ==
    IF value.t = "str" /\ Contains(value.s, "|")
    THEN Return(PyStr(Join(StripItems(Split(value.s, "|")))))
    ELSE IF value.t = "str" /\ Contains(value.s, "#")
    THEN Return(PyStr(Join(StripItems(Split(value.s, "#")))))
    ELSE Return(PyStr(StrOf(value)))

\* the null test without its empty-string half
IsNullOnly(value) == value.t = "none"

\* value is None or value == ''
IsNullOrEmpty(value) == value.t = "none" \/ (value.t = "str" /\ value.s = <<>>)

format_field_value(self, field_name, value) ==
    IF IsNullOrEmpty(value) THEN Return(PyStr(<<"N","/","A">>))
    ELSE IF ~HasFieldSpec(self, field_name) THEN Return(PyStr(StrOf(value)))
    ELSE CASE field_name = "price" -> FormatPrice(value)
           [] field_name = "reviewAverage" -> FormatReviewAverage(value)
           [] field_name = "nReviews" -> FormatNReviews(value)
           [] field_name = "isTrad" -> FormatFlag(value, <<"Y","e","s">>, <<"N","o">>)
           [] field_name = "isFree" ->
                FormatFlag(value, <<"F","r","e","e">>, <<"P","a","i","d">>)
           [] field_name = "releaseDate" -> Return(PyStr(StrOf(value)))
           [] field_name \in {"topicTags", "subcatsList"} -> FormatList(value)
           [] OTHER -> Return(PyStr(StrOf(value)))

(***************************************************************************)
(* extract_author_info: the two regular expressions, matched by position.  *)
(***************************************************************************)
Min(S) == CHOOSE x \in S : \A y \in S : x <= y

\* positions after `from` that hold character c
After(s, from, c) == {i \in DOMAIN s : i > from /\ s[i] = c}

\* \[([^\]]+)\]\(([^)]+)\) matches at position i
LinkAt(s, i) ==
    /\ s[i] = "["
    /\ After(s, i, "]") # {}
    /\ LET close == Min(After(s, i, "]"))
       IN  /\ close >= i + 2
           /\ close + 1 <= Len(s)
           /\ s[close + 1] = "("
           /\ After(s, close + 1, ")") # {}
           /\ Min(After(s, close + 1, ")")) >= close + 3

LinkStarts(s) == {i \in DOMAIN s : LinkAt(s, i)}

\* the match taken from the end of the text instead of its start
LastLink(s) == CHOOSE i \in LinkStarts(s) : \A j \in LinkStarts(s) : j <= i

\* re.search returns the leftmost match
FirstLink(s) == Min(LinkStarts(s))

\* groups 1 and 2 of the match
LinkName(s) ==
    LET i == FirstLink(s)
    IN  SubSeq(s, i + 1, Min(After(s, i, "]")) - 1)

\* group 2 running to the last ")" of the text instead of the first
LinkUrlGreedy(s) ==
    LET close == Min(After(s, FirstLink(s), "]"))
        ends == After(s, close + 1, ")")
    IN  SubSeq(s, close + 2, (CHOOSE i \in ends : \A j \in ends : j <= i) - 1)

LinkUrl(s) ==
    LET close == Min(After(s, FirstLink(s), "]"))
    IN  SubSeq(s, close + 2, Min(After(s, close + 1, ")")) - 1)

IsIdChar(c) == IsUpper(c) \/ IsDigit(c)

\* $ : the end of the text, or just before a final newline
AtEnd(s, pos) == pos = Len(s) + 1 \/ (pos = Len(s) /\ s[pos] = "\n")

\* /([A-Z0-9]{10,})/?$ matches with the slash at position p and the token
\* ending at position q
IdAt(s, p, q) ==
    /\ s[p] = "/"
    /\ q - p >= 10
    /\ \A i \in (p + 1)..q : IsIdChar(s[i])
    /\ \/ AtEnd(s, q + 1)
       \/ (q + 1 <= Len(s) /\ s[q + 1] = "/" /\ AtEnd(s, q + 2))

IdMatches(s) == {pq \in (DOMAIN s) \X (DOMAIN s) : IdAt(s, pq[1], pq[2])}

\* the catalog id of a URL, or None
IdOf(url) ==
    IF IdMatches(url) = {} THEN PyNone
    ELSE LET p == Min({pq[1] : pq \in IdMatches(url)})
             q == CHOOSE q \in DOMAIN url :
                        /\ <<p, q>> \in IdMatches(url)
                        /\ \A r \in DOMAIN url : <<p, r>> \in IdMatches(url) => r <= q
         IN  PyStr(SubSeq(url, p + 1, q))

AuthorInfo(name, url, isbn) == [name |-> name, url |-> url, isbn |-> isbn]

\* the absence test for None only
IsAbsentNoneOnly(author_text) == author_text.t = "none"

\* not author_text
IsAbsent(author_text) == ~Truthy(author_text)

\* the no-match result with its name trimmed
NoLinkTrimmed(author_text) ==
    AuthorInfo(PyStr(Strip(author_text.s)), PyNone, PyNone)

\* return author_text, None, None
NoLink(author_text) == AuthorInfo(author_text, PyNone, PyNone)

extract_author_info(author_text) ==
    IF IsAbsent(author_text)
    THEN Return(AuthorInfo(PyStr(<<"U","n","k","n","o","w","n"," ",
                                   "A","u","t","h","o","r">>), PyNone, PyNone))
    ELSE IF author_text.t # "str" THEN Raise("TypeError")
    ELSE IF LinkStarts(author_text.s) = {}
    THEN Return(NoLink(author_text))
    ELSE Return(AuthorInfo(PyStr(LinkName(author_text.s)),
                           PyStr(LinkUrl(author_text.s)),
                           IdOf(LinkUrl(author_text.s))))

(***************************************************************************)
(* Input texts.                                                            *)
(***************************************************************************)
TxtCozyMystery == <<"c","o","z","y","_","m","y","s","t","e","r","y">>

TxtCozyMysteries ==
    <<"C","o","z","y"," ","M","y","s","t","e","r","i","e","s">>

TxtSciFi == <<"s","c","i","_","f","i">>

TxtScienceFiction ==
    <<"S","c","i","e","n","c","e"," ","F","i","c","t","i","o","n">>

TxtRomance == <<"r","o","m","a","n","c","e">>

Txt3dArt == <<"3","d","_","a","r","t">>

TxtYaBooks == <<"Y","A","_","b","o","o","k","s">>

TxtDoubled == <<"a","_","_","b">>

TxtAbc == <<"a","b","c">>

TxtDecimal == <<"1","2",".","3">>

TxtInf == <<"i","n","f">>

TxtNan == <<"n","a","n">>

TxtPadded == <<" ","7"," ">>

TxtMillion == <<"1","2","3","4","5","6","7">>

TxtUnderscored == <<"1","_","0","0","0">>

TxtNegative == <<"-","5">>

TxtPiped == <<" ","a"," ","|"," ","b"," ">>

TxtHashed == <<"x","#","y">>

TxtBoth == <<"a","#","b","|","c">>

TxtGap == <<"a","|","|"," ","|","b">>

TxtTrail == <<"x","#">>

TxtKeep == <<"K","e","e","p">>

TxtJaneDoe == <<"J","a","n","e"," ","D","o","e">>

TxtJaneLink ==
    <<"[","J","a","n","e"," ","D","o","e","]","(","h","t","t","p",":","/",
      "/","e","x","a","m","p","l","e",".","c","o","m","/","B","0","0","A",
      "B","C","D","E","F","G",")">>

TxtOrig == <<"o","r","i","g">>

TxtDisplay == <<"d","i","s","p","l","a","y">>

TxtImage == <<"i","m","a","g","e">>

TxtPriceName == <<"P","r","i","c","e">>

(***************************************************************************)
(* get_enhanced_book_data.                                                 *)
(***************************************************************************)
FormattedKey(field_name) == field_name \o "_formatted"

\* the genre step writing genre_display for the codes of the taxonomy only
ApplyGenreKnownOnly(self, d) ==
    IF "genre" \notin DOMAIN d THEN [exc |-> "none", d |-> d]
    ELSE LET shown == get_genre_display_name(self, d["genre"])
         IN  IF ~Returned(shown) THEN [exc |-> shown.exc, d |-> d]
             ELSE IF d["genre"].s \in DOMAIN self.genre_mapping.m
             THEN [exc |-> "none", d |-> Put(d, "genre_display", shown.v)]
             ELSE [exc |-> "none", d |-> d]

\* enhanced['genre_display'] = ... : [exc, d]
ApplyGenre(self, d) ==
    IF "genre" \notin DOMAIN d THEN [exc |-> "none", d |-> d]
    ELSE LET shown == get_genre_display_name(self, d["genre"])
         IN  IF Returned(shown)
             THEN [exc |-> "none", d |-> Put(d, "genre_display", shown.v)]
             ELSE [exc |-> shown.exc, d |-> d]

\* the author step with the URL and the catalog id written to each other's key
ApplyAuthorSwapped(d) ==
    IF "Author" \notin DOMAIN d THEN [exc |-> "none", d |-> d]
    ELSE LET info == extract_author_info(d["Author"])
         IN  IF Returned(info)
             THEN [exc |-> "none",
                   d |-> Put(Put(Put(d, "author_name", info.v.name),
                                 "author_url", info.v.isbn),
                             "author_isbn", info.v.url)]
             ELSE [exc |-> info.exc, d |-> d]

\* enhanced['author_name'], ['author_url'], ['author_isbn'] = ... : [exc, d]
ApplyAuthor(d) ==
    IF "Author" \notin DOMAIN d THEN [exc |-> "none", d |-> d]
    ELSE LET info == extract_author_info(d["Author"])
         IN  IF Returned(info)
             THEN [exc |-> "none",
                   d |-> Put(Put(Put(d, "author_name", info.v.name),
                                 "author_url", info.v.url),
                             "author_isbn", info.v.isbn)]
             ELSE [exc |-> info.exc, d |-> d]

\* the loop formatting every field, with or without a rule
FieldsToFormatAll(self, snapshot) == DOMAIN snapshot

\* if field_name in self.field_specs
FieldsToFormat(self, snapshot) ==
    {f \in DOMAIN snapshot : HasFieldSpec(self, f)}

\* the loop over items_to_format, a snapshot of the items taken before it
ApplyFormats(self, snapshot) ==
    LET fields == FieldsToFormat(self, snapshot)
        failing == {f \in fields :
                        ~Returned(format_field_value(self, f, snapshot[f]))}
        source(key) == CHOOSE f \in fields : FormattedKey(f) = key
    IN  IF failing # {}
        THEN [exc |-> format_field_value(self, CHOOSE f \in failing : TRUE,
                                         snapshot[CHOOSE f \in failing : TRUE]).exc,
              d |-> snapshot]
        ELSE [exc |-> "none",
              d |-> [key \in DOMAIN snapshot \cup {FormattedKey(f) : f \in fields} |->
                        IF \E f \in fields : FormattedKey(f) = key
                        THEN format_field_value(self, source(key),
                                                snapshot[source(key)]).v
                        ELSE snapshot[key]]]

get_enhanced_book_data(self, book_data) ==
    LET genre == ApplyGenre(self, book_data)
        author == ApplyAuthor(genre.d)
        formats == ApplyFormats(self, author.d)
    IN  IF genre.exc # "none" THEN Raise(genre.exc)
        ELSE IF author.exc # "none" THEN Raise(author.exc)
        ELSE IF formats.exc # "none" THEN Raise(formats.exc)
        ELSE Return(formats.d)

(***************************************************************************)
(* Inputs.                                                                 *)
(***************************************************************************)
GenreTable == (TxtCozyMystery :> PyStr(TxtCozyMysteries))
                @@ (TxtSciFi :> PyStr(TxtScienceFiction))

PlainRule == PyDict(<<>>)

PriceRule == PyDict([display_name |-> PyStr(TxtPriceName), display_type |-> PyStr(TxtDisplay)])

FieldTable ==
    [price |-> PriceRule, reviewAverage |-> PlainRule, nReviews |-> PlainRule,
     releaseDate |-> PlainRule, isTrad |-> PlainRule, isFree |-> PlainRule,
     topicTags |-> PlainRule, subcatsList |-> PlainRule, Title |-> PlainRule,
     price_formatted |-> PlainRule, genre_display |-> PlainRule,
     author_isbn |-> PlainRule, coverImage |-> PyDict([display_type |-> PyStr(TxtImage)]),
     notes |-> PyStr(TxtAbc)]

Parsed(top) == [src |-> "parsed", top |-> top]

\* the documents a DataMapper is constructed from
Documents ==
    {[src |-> "missing"], [src |-> "invalid"],
     Parsed(PyNone),
     Parsed(PyStr(TxtAbc)),
     Parsed(PyList(<<PyStr(TxtAbc)>>)),
     Parsed(PyDict([genres |-> PyDict(GenreTable), fields |-> PyDict(FieldTable)])),
     Parsed(PyDict([genres |-> PyDict(GenreTable)])),
     Parsed(PyDict([fields |-> PyDict(FieldTable)])),
     Parsed(PyDict([genres |-> PyNone, fields |-> PyDict(FieldTable)])),
     Parsed(PyDict([genres |-> PyList(<<PyStr(TxtRomance)>>)])),
     Parsed(PyDict([genres |-> PyDict(GenreTable), fields |-> PyNone])),
     Parsed(PyDict([genres |-> PyDict(GenreTable), fields |-> PyList(<<PyStr(TxtAbc)>>)])),
     Parsed(PyDict([fields |->
        PyDict([price |-> PyDict([display_type |-> PyList(<<PyStr(TxtImage)>>)])])])),
     Parsed(PyDict([fields |-> PyDict(FieldTable),
                    card_display |-> PyDict([primary_fields |-> Names(<<"Title">>)])])),
     Parsed(PyDict([genres |-> PyDict(GenreTable), card_display |-> PyNone]))}

Wholes == 0..MaxWhole

Numbers ==
    {PyInt(n) : n \in Wholes \cup {-1, 999, 1000, 1234567, -1234}}
        \cup {PyFloat(10 * n) : n \in Wholes}
        \cup {PyFloat(10 * n + 7) : n \in Wholes}
        \cup {PyFloat(123), PyFloat(47), PyFloat(-5), PyFloat(-15),
              PyFloat(12345678), PyNaN, PyInf, PyNegInf}

Texts ==
    {PyStr(s) : s \in {<<>>, TxtAbc, TxtDecimal, TxtInf, TxtNan, TxtPadded,
                       TxtMillion, TxtUnderscored, TxtNegative, TxtPiped,
                       TxtHashed, TxtBoth, TxtGap, TxtTrail, TxtJaneDoe}}

\* the raw values format_field_value is called with
Values == {PyNone, PyBool(TRUE), PyBool(FALSE)} \cup Numbers \cup Texts

\* a rating of millions (a text of millions of glyphs) is not drawn
ValuesOf(field_name) ==
    IF field_name = "reviewAverage"
    THEN Values \ {PyInt(1234567), PyFloat(12345678), PyStr(TxtMillion)}
    ELSE Values

FieldNames ==
    {"price", "reviewAverage", "nReviews", "releaseDate", "isTrad", "isFree",
     "topicTags", "subcatsList", "Title", "unknownColumn"}

GenreCodes ==
    {PyStr(s) : s \in {TxtCozyMystery, TxtSciFi, TxtRomance, Txt3dArt,
                       TxtYaBooks, TxtDoubled, <<>>}}
        \cup {PyNone, PyInt(5)}

\* the columns of a raw record and the values each may carry
ColumnValues ==
    [genre |-> {PyStr(TxtCozyMystery), PyStr(TxtRomance), PyNone, PyInt(5)},
     genre_display |-> {PyStr(TxtKeep)},
     Author |-> {PyStr(TxtJaneDoe), PyStr(TxtJaneLink), PyStr(<<>>), PyNone,
                 PyInt(0), PyInt(5)},
     author_name |-> {PyStr(TxtKeep)},
     author_isbn |-> {PyStr(TxtKeep)},
     price |-> {PyFloat(123), PyStr(TxtAbc), PyNone},
     price_formatted |-> {PyStr(TxtOrig)},
     reviewAverage |-> {PyFloat(47), PyInf, PyNaN},
     nReviews |-> {PyInt(1234567), PyStr(TxtInf)},
     isFree |-> {PyBool(FALSE)},
     unknownColumn |-> {PyStr(TxtAbc)}]

\* a raw record carries at most MaxColumns columns
MaxColumns == 2

ColumnSets == {K \in SUBSET DOMAIN ColumnValues : Cardinality(K) <= MaxColumns}

\* the raw records get_enhanced_book_data is called with
RawRecords ==
    {raw \in UNION {[K -> UNION {ColumnValues[c] : c \in K}] : K \in ColumnSets} :
        \A c \in DOMAIN raw : raw[c] \in ColumnValues[c]}

\* the text [name](url)
Link(name, url) == <<"[">> \o name \o <<"]", "(">> \o url \o <<")">>

TxtId == <<"B","0","0","A","B","C","D","E","F","G">>

TxtLongId == <<"9","7","8","1","2","3","4","5","6","7","8","9","X">>

TxtShortId == <<"B","0","0","A","B","C","D","E","F">>

TxtLowerId == <<"b","0","0","a","b","c","d","e","f","g">>

\* the URLs of the author links
AuthorUrls ==
    {<<"u">>, TxtId, <<"/">> \o TxtId, <<"/">> \o TxtLongId,
     <<"/">> \o TxtId \o <<"/">>, <<"/">> \o TxtId \o <<"/", "/">>,
     <<"/">> \o TxtId \o <<"\n">>, <<"/">> \o TxtId \o <<"/", "\n">>,
     <<"/">> \o TxtShortId, <<"/">> \o TxtLowerId,
     <<"/", "a">> \o TxtId, <<"/">> \o TxtId \o <<"-">>,
     <<"/">> \o TxtId \o <<"/", "y">>, <<"/">> \o TxtId \o <<"?", "r">>,
     <<"/">> \o TxtId \o <<"/">> \o TxtLongId,
     <<"/">> \o TxtLongId \o <<"/">> \o TxtShortId}

\* texts that hold no link, one link, and several links
AuthorTexts ==
    {<<>>, TxtJaneDoe, TxtPadded, TxtJaneLink,
     <<"[", "]", "(", "u", ")">>, <<"[", "a", "]", "(", ")">>,
     <<"[", "a", "]", " ", "(", "u", ")">>, <<"[", "a", "]", "(", "u">>,
     <<"[">> \o Link(<<"a">>, <<"u">>),
     <<"x", " ">> \o Link(<<"a">>, <<"u">>) \o <<" ", "y">>,
     Link(<<"a">>, <<"u">>) \o Link(<<"b">>, <<"/">> \o TxtId),
     Link(<<"a">>, <<"/">> \o TxtId) \o <<",", " ">>
        \o Link(<<"b">>, <<"/">> \o TxtLongId),
     <<"[", "x", "]", " ">> \o Link(<<"a">>, <<"(", "u">>) \o <<")">>}
        \cup {Link(<<"a">>, url) : url \in AuthorUrls}

\* the values extract_author_info is called with
AuthorValues ==
    {PyStr(s) : s \in AuthorTexts} \cup {PyNone, PyInt(0), PyInt(5), PyBool(FALSE)}

(***************************************************************************)
(* calculate_market_metrics.  A float64 is held as an exact fraction        *)
(* num/den in lowest terms (den > 0), or as nan, inf or -inf; the rounding  *)
(* of a quotient to 53 bits is not modelled.  A DataFrame is its set of     *)
(* column names and the sequence of its rows, each a function on columns.   *)
(***************************************************************************)
RECURSIVE GCD(_, _)
GCD(a, b) == IF b = 0 THEN a ELSE GCD(b, a % b)

Frac(num, den) ==
    LET g == GCD(Abs(num), den)
    IN  [k |-> "fin", num |-> num \div g, den |-> den \div g]

FNaN == [k |-> "nan", num |-> 0, den |-> 1]

FInf == [k |-> "inf", num |-> 0, den |-> 1]

FNegInf == [k |-> "ninf", num |-> 0, den |-> 1]

Whole(n) == Frac(n, 1)

Sgn(x) ==
    CASE x.k = "inf" -> 1
      [] x.k = "ninf" -> -1
      [] OTHER -> IF x.num > 0 THEN 1 ELSE IF x.num < 0 THEN -1 ELSE 0

Signed(sign) == IF sign < 0 THEN FNegInf ELSE FInf

\* a * b on float64
FMul(a, b) ==
    IF a.k = "nan" \/ b.k = "nan" THEN FNaN
    ELSE IF a.k = "fin" /\ b.k = "fin" THEN Frac(a.num * b.num, a.den * b.den)
    ELSE IF Sgn(a) = 0 \/ Sgn(b) = 0 THEN FNaN
    ELSE Signed(Sgn(a) * Sgn(b))

\* a / b on float64 (and on int64 columns, which divide as float64): no
\* exception, x / 0 is inf or -inf and 0 / 0 is nan
FDiv(a, b) ==
    IF a.k = "nan" \/ b.k = "nan" THEN FNaN
    ELSE IF a.k # "fin" /\ b.k # "fin" THEN FNaN
    ELSE IF a.k # "fin" THEN Signed(IF Sgn(b) < 0 THEN -Sgn(a) ELSE Sgn(a))
    ELSE IF b.k # "fin" THEN Whole(0)
    ELSE IF b.num = 0 THEN (IF a.num = 0 THEN FNaN ELSE Signed(Sgn(a)))
    ELSE Frac(Sgn(b) * a.num * b.den, a.den * Abs(b.num))

\* a + b on float64
FAdd(a, b) ==
    IF a.k = "nan" \/ b.k = "nan" THEN FNaN
    ELSE IF a.k = "fin" /\ b.k = "fin"
    THEN Frac(a.num * b.den + b.num * a.den, a.den * b.den)
    ELSE IF a.k = "fin" THEN b
    ELSE IF b.k = "fin" \/ a.k = b.k THEN a
    ELSE FNaN

\* a <= b for values that are not nan
FLeq(a, b) ==
    IF a.k = "ninf" \/ b.k = "inf" THEN TRUE
    ELSE IF a.k = "inf" \/ b.k = "ninf" THEN FALSE
    ELSE a.num * b.den <= b.num * a.den

\* the least value of the column instead of the greatest
ColumnMin(frame, column) ==
    LET values == {frame.rows[i][column] : i \in DOMAIN frame.rows}
        known == {v \in values : v.k # "nan"}
    IN  IF known = {} THEN FNaN
        ELSE CHOOSE m \in known : \A v \in known : FLeq(m, v)

\* df[column].max(): nan values are skipped, nan for a column without values
ColumnMax(frame, column) ==
    LET values == {frame.rows[i][column] : i \in DOMAIN frame.rows}
        known == {v \in values : v.k # "nan"}
    IN  IF known = {} THEN FNaN
        ELSE CHOOSE m \in known : \A v \in known : FLeq(v, m)

BaseColumns == {"book_count", "avg_price", "avg_rating", "avg_reviews"}

\* the opportunity index without the rating factor
MarketOpportunityUnrated(row) ==
    FDiv(FMul(row["avg_price"], row["avg_reviews"]), row["book_count"])

\* (df['avg_price'] * df['avg_reviews'] * df['avg_rating']) / df['book_count']
MarketOpportunity(row) ==
    FDiv(FMul(FMul(row["avg_price"], row["avg_reviews"]), row["avg_rating"]),
         row["book_count"])

\* the competition level as a fraction of the maximum, not a percentage
CompetitionLevelFraction(frame, row) ==
    FDiv(row["book_count"], ColumnMax(frame, "book_count"))

\* (df['book_count'] / df['book_count'].max()) * 100
CompetitionLevel(frame, row) ==
    FMul(FDiv(row["book_count"], ColumnMax(frame, "book_count")), Whole(100))

\* df['avg_rating'] * (df['avg_reviews'] / df['avg_reviews'].max())
QualityThreshold(frame, row) ==
    FMul(row["avg_rating"],
         FDiv(row["avg_reviews"], ColumnMax(frame, "avg_reviews")))

\* df['avg_price'] * df['avg_reviews']
RevenuePotential(row) == FMul(row["avg_price"], row["avg_reviews"])

\* the entry difficulty with the quality threshold left on its 0..5 scale
EntryDifficultyUnscaled(frame, row) ==
    FDiv(FAdd(CompetitionLevel(frame, row), QualityThreshold(frame, row)),
         Whole(2))

\* (df['competition_level'] + (df['quality_threshold'] * 20)) / 2
EntryDifficulty(frame, row) ==
    FDiv(FAdd(CompetitionLevel(frame, row),
              FMul(QualityThreshold(frame, row), Whole(20))),
         Whole(2))

DerivedColumns ==
    {"market_opportunity", "competition_level", "quality_threshold",
     "revenue_potential", "entry_difficulty"}

\* the assignments adding to a revenue_potential the row already carries
AugmentedAccumulating(frame, row) ==
    [column \in DOMAIN row \cup DerivedColumns |->
        CASE column = "market_opportunity" -> MarketOpportunity(row)
          [] column = "competition_level" -> CompetitionLevel(frame, row)
          [] column = "quality_threshold" -> QualityThreshold(frame, row)
          [] column = "revenue_potential" ->
                IF "revenue_potential" \in DOMAIN row
                THEN FAdd(row["revenue_potential"], RevenuePotential(row))
                ELSE RevenuePotential(row)
          [] column = "entry_difficulty" -> EntryDifficulty(frame, row)
          [] OTHER -> row[column]]

\* the row with its five derived columns assigned
Augmented(frame, row) ==
    [column \in DOMAIN row \cup DerivedColumns |->
        CASE column = "market_opportunity" -> MarketOpportunity(row)
          [] column = "competition_level" -> CompetitionLevel(frame, row)
          [] column = "quality_threshold" -> QualityThreshold(frame, row)
          [] column = "revenue_potential" -> RevenuePotential(row)
          [] column = "entry_difficulty" -> EntryDifficulty(frame, row)
          [] OTHER -> row[column]]

\* [exc, df]: the frame is assigned to in place and returned; a frame that
\* lacks a base column raises KeyError at the first statement
calculate_market_metrics(frame) ==
    IF ~(BaseColumns \subseteq frame.columns)
    THEN [exc |-> "KeyError", df |-> frame]
    ELSE [exc |-> "none",
          df |-> [columns |-> frame.columns \cup DerivedColumns,
                  rows |-> [i \in DOMAIN frame.rows |->
                                Augmented(frame, frame.rows[i])]]]

\* a row set holds at most MaxRows genres
MaxRows == 2

\* a genre holds at most MaxCount books
MaxCount == 2

\* a process calls get_data_mapper at most MaxCalls times
MaxCalls == 4

GenreNames == <<TxtRomance, TxtSciFi, TxtCozyMystery, Txt3dArt>>

\* the statistics of one genre: book_count an int, avg_price and avg_rating
\* rounded to hundredths, avg_reviews an int
Averages ==
    {[avg_price |-> Frac(299, 100), avg_rating |-> Frac(9, 2), avg_reviews |-> Whole(10)],
     [avg_price |-> Frac(25, 2), avg_rating |-> Frac(15, 4), avg_reviews |-> Whole(250)],
     [avg_price |-> Frac(299, 100), avg_rating |-> Frac(9, 2), avg_reviews |-> Whole(0)],
     [avg_price |-> Whole(0), avg_rating |-> Whole(0), avg_reviews |-> Whole(0)]}

StatRows ==
    {[book_count |-> Whole(n), avg_price |-> a.avg_price,
      avg_rating |-> a.avg_rating, avg_reviews |-> a.avg_reviews] :
        n \in 0..MaxCount, a \in Averages}

\* pd.DataFrame(genre_stats): one row per genre, the i-th named GenreNames[i]
\* when the statistics carry no name; an empty list gives a frame without
\* columns
DataFrame(genre_stats) ==
    [columns |-> IF genre_stats = <<>> THEN {} ELSE BaseColumns \cup {"genre"},
     rows |-> [i \in DOMAIN genre_stats |->
                [column \in BaseColumns \cup {"genre"} |->
                    IF column # "genre" THEN genre_stats[i][column]
                    ELSE IF "genre" \in DOMAIN genre_stats[i]
                         THEN genre_stats[i]["genre"]
                    ELSE GenreNames[i]]]]

GenreStats == UNION {[1..n -> StatRows] : n \in 0..MaxRows}

(***************************************************************************)
(* The state: `mapper` is the DataMapper object the caller holds (built is *)
(* FALSE while it holds none), `last` the call made last and its outcome,  *)
(* [op |-> "idle"] between calls, `df` the DataFrame of the analytics view. *)
(***************************************************************************)
Idle == [op |-> "idle"]

\* the module before get_data_mapper is called: _data_mapper = None
NoInstance == [built |-> FALSE]

\* the module as imported: no instance yet, data_map.yaml as it is on disk
Imported(document) ==
    [_data_mapper |-> NoInstance, document |-> document,
     calls |-> 0, constructions |-> 0, returned |-> {}]

Init ==
    /\ mapper = [built |-> FALSE]
    /\ last = Idle
    /\ df = DataFrame(<<>>)
    /\ registry = Imported([src |-> "missing"])
    /\ db = [built |-> FALSE]

\* mapper = DataMapper(doc): a constructor that raises leaves no new object
Construct(doc) ==
    /\ UNCHANGED <<df, registry, db>>
    /\ last = Idle
    /\ mapper' = IF DataMapperInit(doc).exc = "none" THEN DataMapperInit(doc).obj
                 ELSE mapper
    /\ last' = [op |-> "construct", doc |-> doc,
                out |-> IF DataMapperInit(doc).exc = "none" THEN Return(PyNone)
                        ELSE Raise(DataMapperInit(doc).exc)]

GetGenreDisplayName(genre_code) ==
    /\ UNCHANGED <<df, registry, db>>
    /\ last = Idle
    /\ mapper.built
    /\ last' = [op |-> "get_genre_display_name", genre_code |-> genre_code,
                out |-> get_genre_display_name(mapper, genre_code)]
    /\ mapper' = SelfAfter(mapper)

FormatFieldValue(field_name, value) ==
    /\ UNCHANGED <<df, registry, db>>
    /\ last = Idle
    /\ mapper.built
    /\ last' = [op |-> "format_field_value", field_name |-> field_name,
                value |-> value,
                out |-> format_field_value(mapper, field_name, value)]
    /\ mapper' = SelfAfter(mapper)

GetEnhancedBookData(book_data) ==
    /\ UNCHANGED <<df, registry, db>>
    /\ last = Idle
    /\ mapper.built
    /\ last' = [op |-> "get_enhanced_book_data", book_data |-> book_data,
                out |-> get_enhanced_book_data(mapper, book_data)]
    /\ mapper' = SelfAfter(mapper)

ExtractAuthorInfo(author_text) ==
    /\ UNCHANGED <<df, registry, db>>
    /\ last = Idle
    /\ mapper.built
    /\ last' = [op |-> "extract_author_info", author_text |-> author_text,
                out |-> extract_author_info(author_text)]
    /\ mapper' = SelfAfter(mapper)

GetFieldSpec(field_name) ==
    /\ UNCHANGED <<df, registry, db>>
    /\ last = Idle
    /\ mapper.built
    /\ last' = [op |-> "get_field_spec", field_name |-> field_name,
                out |-> get_field_spec(mapper, field_name)]
    /\ mapper' = SelfAfter(mapper)

GetCardDisplayConfig ==
    /\ UNCHANGED <<df, registry, db>>
    /\ last = Idle
    /\ mapper.built
    /\ last' = [op |-> "get_card_display_config",
                out |-> get_card_display_config(mapper)]
    /\ mapper' = SelfAfter(mapper)

\* the caller takes the outcome; the mapper keeps nothing of the call
ReturnToCaller ==
    /\ UNCHANGED <<df, registry, db>>
    /\ last # Idle
    /\ last' = Idle
    /\ UNCHANGED mapper

Next ==
    \/ \E doc \in Documents : Construct(doc)
    \/ \E genre_code \in GenreCodes : GetGenreDisplayName(genre_code)
    \/ \E field_name \in FieldNames :
            \E value \in ValuesOf(field_name) : FormatFieldValue(field_name, value)
    \/ \E author_text \in AuthorValues : ExtractAuthorInfo(author_text)
    \/ \E book_data \in RawRecords : GetEnhancedBookData(book_data)
    \/ \E field_name \in FieldNames : GetFieldSpec(field_name)
    \/ GetCardDisplayConfig
    \/ ReturnToCaller

Spec == Init /\ [][Next]_vars

(***************************************************************************)
(* The module-level mapper.  registry holds the global _data_mapper, the   *)
(* document at the default yaml_path, and the history of the calls: how    *)
(* many calls, how many times DataMapper() ran, which instances came back. *)
(***************************************************************************)
\* a test that asks for a fresh mapper at every call
IsNoneAlways(current) == TRUE

\* _data_mapper is None
IsNone(current) == ~current.built

GetDataMapper ==
    LET constructs == IsNone(registry._data_mapper)
        made == DataMapperInit(registry.document)
        failed == constructs /\ made.exc # "none"
        instance ==
            IF ~constructs THEN registry._data_mapper
            ELSE IF failed THEN NoInstance
            ELSE [instance |-> registry.constructions + 1] @@ made.obj
    IN  /\ last = Idle
        /\ registry.calls < MaxCalls
        /\ registry' =
              [registry EXCEPT
                 !._data_mapper = IF failed THEN @ ELSE instance,
                 !.calls = @ + 1,
                 !.constructions = IF constructs THEN @ + 1 ELSE @,
                 !.returned = IF failed THEN @ ELSE @ \cup {instance.instance}]
        /\ last' = [op |-> "get_data_mapper",
                    out |-> IF failed THEN Raise(made.exc) ELSE Return(instance)]
        /\ mapper' = IF failed THEN mapper ELSE instance
        /\ UNCHANGED <<df, db>>

SingletonInit ==
    /\ mapper = [built |-> FALSE]
    /\ last = Idle
    /\ df = DataFrame(<<>>)
    /\ \E document \in Documents : registry = Imported(document)
    /\ db = [built |-> FALSE]

SingletonNext ==
    \/ GetDataMapper
    \/ ReturnToCaller

SingletonSpec == SingletonInit /\ [][SingletonNext]_vars

(***************************************************************************)
(* The analytics page.                                                     *)
(***************************************************************************)
\* show_analytics starts: df = pd.DataFrame(genre_stats)
BuildFrame(genre_stats) ==
    /\ last = Idle
    /\ df' = DataFrame(genre_stats)
    /\ last' = [op |-> "DataFrame", out |-> Return(PyNone)]
    /\ UNCHANGED <<mapper, registry, db>>

\* df = calculate_market_metrics(df), on a frame just built or just augmented
CalculateMarketMetrics ==
    /\ last # Idle
    /\ df' = calculate_market_metrics(df).df
    /\ last' = [op |-> "calculate_market_metrics", df |-> df,
                out |-> IF calculate_market_metrics(df).exc = "none"
                        THEN Return(PyNone)
                        ELSE Raise(calculate_market_metrics(df).exc)]
    /\ UNCHANGED <<mapper, registry, db>>

\* show_analytics returns: its frame is dropped
EndAnalytics ==
    /\ last # Idle
    /\ last' = Idle
    /\ df' = DataFrame(<<>>)
    /\ UNCHANGED <<mapper, registry, db>>

MetricsNext ==
    \/ \E genre_stats \in GenreStats : BuildFrame(genre_stats)
    \/ CalculateMarketMetrics
    \/ EndAnalytics

\* the analytics view: frames are built and augmented, no mapper is involved
MetricsSpec == Init /\ [][MetricsNext]_vars

(***************************************************************************)
(* BookDatabase.get_genre_stats over the books table, and show_analytics.  *)
(* A column value is a fraction or NULL; a genre_display is a text or      *)
(* absent.                                                                 *)
(***************************************************************************)
NULL == [k |-> "null", num |-> 0, den |-> 1]

IsNull(value) == value.k = "null"

NoText == [null |-> TRUE, text |-> <<>>]

Text(text) == [null |-> FALSE, text |-> text]

\* COALESCE(genre_display, genre)
Coalesce(book) ==
    IF book.genre_display.null THEN book.genre ELSE book.genre_display.text

Power10(digits) == IF digits = 0 THEN 1 ELSE 100

\* ROUND(value, digits) for digits 0 and 2: halves go away from zero
Round(value, digits) ==
    IF IsNull(value) THEN NULL
    ELSE LET scale == Power10(digits)
             doubled == 2 * Abs(value.num) * scale
             nearest == (doubled + value.den) \div (2 * value.den)
         IN  Frac(IF value.num < 0 THEN -nearest ELSE nearest, scale)

RECURSIVE Sum(_, _, _)
Sum(books, members, column) ==
    IF members = {} THEN Whole(0)
    ELSE LET i == CHOOSE m \in members : TRUE
         IN  FAdd(books[i][column], Sum(books, members \ {i}, column))

\* AVG(column) over a group: NULL values are skipped, no value gives NULL
Avg(books, members, column) ==
    LET known == {i \in members : ~IsNull(books[i][column])}
    IN  IF known = {} THEN NULL
        ELSE FDiv(Sum(books, known, column), Whole(Cardinality(known)))

\* int(row[4]) if row[4] else 0
IntOrZero(value) ==
    IF IsNull(value) \/ value.num = 0 THEN Whole(0) ELSE value

\* the books the WHERE clause keeps, by position in the table
Where(books, selected_genres) ==
    {i \in DOMAIN books :
        /\ ~IsNull(books[i].price)
        /\ ~IsNull(books[i].reviewAverage)
        /\ selected_genres # {} => Coalesce(books[i]) \in selected_genres}

\* one row of the result: the aggregates of the kept books of one genre
GroupRow(books, kept, genre) ==
    LET members == {i \in kept : Coalesce(books[i]) = genre}
    IN  [genre |-> genre,
         book_count |-> Whole(Cardinality(members)),
         avg_price |-> Round(Avg(books, members, "price"), 2),
         avg_rating |-> Round(Avg(books, members, "reviewAverage"), 2),
         avg_reviews |-> IntOrZero(Round(Avg(books, members, "nReviews"), 0))]

\* the lists get_genre_stats can return: one row per genre that has a kept
\* book, by book_count descending, genres of equal count in any order
get_genre_stats(books, selected_genres) ==
    LET kept == Where(books, selected_genres)
        groups == {Coalesce(books[i]) : i \in kept}
        rows == {GroupRow(books, kept, genre) : genre \in groups}
    IN  {result \in [1..Cardinality(rows) -> rows] :
            /\ \A i, j \in DOMAIN result : i # j => result[i] # result[j]
            /\ \A i, j \in DOMAIN result :
                    i < j => FLeq(result[j].book_count, result[i].book_count)}

\* at most MaxBooks books are in the table
MaxBooks == 2

TxtRomanceDisplay == <<"R","o","m","a","n","c","e">>

Genres ==
    {[genre |-> TxtRomance, genre_display |-> NoText],
     [genre |-> TxtRomance, genre_display |-> Text(TxtRomanceDisplay)],
     [genre |-> TxtSciFi, genre_display |-> NoText]}

Prices ==
    {[price |-> Frac(299, 100), reviewAverage |-> Frac(9, 2)],
     [price |-> NULL, reviewAverage |-> Frac(9, 2)],
     [price |-> Frac(25, 2), reviewAverage |-> NULL],
     [price |-> Frac(25, 2), reviewAverage |-> Frac(15, 4)]}

Reviews == {NULL, Whole(0), Whole(1), Whole(10)}

Books ==
    {[genre |-> g.genre, genre_display |-> g.genre_display, price |-> p.price,
      reviewAverage |-> p.reviewAverage, nReviews |-> n] :
        g \in Genres, p \in Prices, n \in Reviews}

Tables == UNION {[1..n -> Books] : n \in 0..MaxBooks}

Selections ==
    {{}, {TxtRomance}, {TxtRomanceDisplay}, {TxtRomance, TxtSciFi}}

\* show_analytics(selected_genres) over a books table; connects tells whether
\* duckdb.connect succeeds when get_genre_stats enters its with block
ShowAnalytics(books, selected_genres, connects) ==
    /\ last = Idle
    /\ UNCHANGED <<mapper, registry, db>>
    /\ IF selected_genres = {}
       THEN /\ df' = df
            /\ last' = [op |-> "show_analytics", books |-> books,
                        selected_genres |-> selected_genres,
                        calculated |-> FALSE, out |-> Return(PyNone)]
       ELSE IF ~connects
       THEN /\ df' = df
            /\ last' = [op |-> "show_analytics", books |-> books,
                        selected_genres |-> selected_genres,
                        calculated |-> FALSE, out |-> Raise("Exception")]
       ELSE \E genre_stats \in get_genre_stats(books, selected_genres) :
              LET frame == DataFrame(genre_stats)
              IN  IF frame.rows = <<>>
                  THEN /\ df' = frame
                       /\ last' = [op |-> "show_analytics", books |-> books,
                                   selected_genres |-> selected_genres,
                                   calculated |-> FALSE, out |-> Return(PyNone)]
                  ELSE /\ df' = calculate_market_metrics(frame).df
                       /\ last' = [op |-> "show_analytics", books |-> books,
                                   selected_genres |-> selected_genres,
                                   calculated |-> TRUE, passed |-> frame,
                                   out |-> Return(PyNone)]

AnalyticsNext ==
    \/ \E books \in Tables : \E selected_genres \in Selections :
            \E connects \in BOOLEAN :
                ShowAnalytics(books, selected_genres, connects)
    \/ EndAnalytics

\* the analytics page over the contents the books table can have
AnalyticsSpec == Init /\ [][AnalyticsNext]_vars

(***************************************************************************)
(* BookDatabase.  db is the object: conn is None or the connection it      *)
(* holds, opened counts the connections made so far, blocks the with       *)
(* blocks the caller is inside of.                                         *)
(***************************************************************************)
\* at most MaxConnections connections are opened on one object
MaxConnections == 3

\* with blocks on one object nest at most MaxBlocks deep
MaxBlocks == 2

Connection(n) == [t |-> "connection", n |-> n, s |-> <<>>, k |-> "fin"]

\* self.conn = None
BookDatabaseInit == [built |-> TRUE, conn |-> PyNone, opened |-> 0, blocks |-> 0]

\* duckdb.connect succeeds or raises; a failure is logged and raised again
connect(self, succeeds) ==
    IF succeeds
    THEN [exc |-> "none",
          self |-> [self EXCEPT !.conn = Connection(self.opened + 1),
                                !.opened = @ + 1]]
    ELSE [exc |-> "duckdb.Error", self |-> self]

\* a disconnect that closes the connection and keeps the closed handle
disconnectKeepingHandle(self) == self

\* if self.conn: self.conn.close(); self.conn = None
disconnect(self) ==
    IF self.conn # PyNone THEN [self EXCEPT !.conn = PyNone] ELSE self

Queries == {"SELECT COUNT(*) FROM books", "SELECT * FROM missing"}

\* the query names a table the database has
Runs(query) == query = "SELECT COUNT(*) FROM books"

\* execute_query: connects when no connection is held, then executes; ran
\* tells whether conn.execute was reached and ran_on on which connection
execute_query(self, query, succeeds) ==
    LET connected == IF self.conn = PyNone THEN connect(self, succeeds)
                     ELSE [exc |-> "none", self |-> self]
    IN  IF connected.exc # "none"
        THEN [exc |-> connected.exc, self |-> connected.self,
              ran |-> FALSE, ran_on |-> PyNone]
        ELSE [exc |-> IF Runs(query) THEN "none" ELSE "duckdb.Error",
              self |-> connected.self,
              ran |-> TRUE, ran_on |-> connected.self.conn]

Outcome(exc, v) == IF exc = "none" THEN Return(v) ELSE Raise(exc)

\* BookDatabase(db_path): with no db_path and no configuration the path is
\* searched for, and the search raises when it reaches its third candidate,
\* a str, which has no exists()
NewBookDatabase(located) ==
    /\ last = Idle
    /\ ~db.built
    /\ db' = IF located THEN BookDatabaseInit ELSE db
    /\ last' = [op |-> "BookDatabase", before |-> db,
                out |-> IF located THEN Return(PyNone)
                        ELSE Raise("AttributeError")]
    /\ UNCHANGED <<mapper, df, registry>>

Connect(succeeds) ==
    /\ last = Idle
    /\ db.built
    /\ succeeds => db.opened < MaxConnections
    /\ db' = connect(db, succeeds).self
    /\ last' = [op |-> "connect", before |-> db,
                out |-> Outcome(connect(db, succeeds).exc,
                                connect(db, succeeds).self.conn)]
    /\ UNCHANGED <<mapper, df, registry>>

Disconnect ==
    /\ last = Idle
    /\ db.built
    /\ db' = disconnect(db)
    /\ last' = [op |-> "disconnect", before |-> db, out |-> Return(PyNone)]
    /\ UNCHANGED <<mapper, df, registry>>

\* with db: __enter__ connects; the block is entered when it returns
Enter(succeeds) ==
    /\ last = Idle
    /\ db.built
    /\ succeeds => db.opened < MaxConnections /\ db.blocks < MaxBlocks
    /\ db' = IF succeeds
             THEN [connect(db, succeeds).self EXCEPT !.blocks = @ + 1]
             ELSE db
    /\ last' = [op |-> "__enter__", before |-> db,
                out |-> Outcome(connect(db, succeeds).exc, PyNone)]
    /\ UNCHANGED <<mapper, df, registry>>

\* the block is left, normally or by an exception: __exit__ disconnects and
\* returns None, so an exception goes on to the caller
Exit(by_exception) ==
    /\ last = Idle
    /\ db.built
    /\ db.blocks > 0
    /\ db' = [disconnect(db) EXCEPT !.blocks = @ - 1]
    /\ last' = [op |-> "__exit__", before |-> db, by_exception |-> by_exception,
                out |-> IF by_exception THEN Raise("Exception")
                        ELSE Return(PyNone)]
    /\ UNCHANGED <<mapper, df, registry>>

ExecuteQuery(query, succeeds) ==
    /\ last = Idle
    /\ db.built
    /\ (db.conn = PyNone /\ succeeds) => db.opened < MaxConnections
    /\ db' = execute_query(db, query, succeeds).self
    /\ last' = [op |-> "execute_query", before |-> db, query |-> query,
                ran |-> execute_query(db, query, succeeds).ran,
                ran_on |-> execute_query(db, query, succeeds).ran_on,
                out |-> Outcome(execute_query(db, query, succeeds).exc, PyNone)]
    /\ UNCHANGED <<mapper, df, registry>>

DatabaseNext ==
    \/ \E located \in BOOLEAN : NewBookDatabase(located)
    \/ \E succeeds \in BOOLEAN : Connect(succeeds)
    \/ Disconnect
    \/ \E succeeds \in BOOLEAN : Enter(succeeds)
    \/ \E by_exception \in BOOLEAN : Exit(by_exception)
    \/ \E query \in Queries : \E succeeds \in BOOLEAN : ExecuteQuery(query, succeeds)
    \/ ReturnToCaller

\* one BookDatabase object and the calls made on it
DatabaseSpec == Init /\ [][DatabaseNext]_vars

(***************************************************************************)
(* Properties.                                                             *)
(***************************************************************************)
Called(op) == last.op = op

TxtNA == <<"N","/","A">>

\* C1: the record get_enhanced_book_data returns contains every key of the
\* raw record with exactly the value it has in the raw record.
C1_OriginalKeysPreserved ==
    (Called("get_enhanced_book_data") /\ Returned(last.out)) =>
        \A key \in DOMAIN last.book_data :
            /\ key \in DOMAIN last.out.v
            /\ last.out.v[key] = last.book_data[key]

\* C2: format_field_value returns a string for every field name and every
\* value, and never raises.
C2_FormatIsTotal ==
    Called("format_field_value") =>
        Returned(last.out) /\ last.out.v.t = "str"

\* C3: get_enhanced_book_data returns an enhanced record for every raw
\* record; no exception escapes.
C3_EnhanceNeverFails ==
    Called("get_enhanced_book_data") => Returned(last.out)

\* the documents C4 is about: absent, invalid, or with a top level, a genres
\* section or a fields section that is not a mapping
Unusable(doc) ==
    \/ doc.src \in {"missing", "invalid"}
    \/ /\ doc.src = "parsed"
       /\ \/ doc.top.t # "dict"
          \/ "genres" \in DOMAIN doc.top.m /\ doc.top.m["genres"].t # "dict"
          \/ "fields" \in DOMAIN doc.top.m /\ doc.top.m["fields"].t # "dict"

\* C4: constructing a DataMapper from a missing or unparseable document
\* completes with an empty genre table and an empty field-rule table, and
\* every later genre lookup and formatting call on it succeeds.
C4_UnusableDocumentNotFatal ==
    /\ (Called("construct") /\ Unusable(last.doc)) =>
            /\ Returned(last.out)
            /\ mapper.yaml_path = last.doc
            /\ mapper.genre_mapping = EmptyDict
            /\ mapper.field_specs = <<>>
    /\ (mapper.built /\ Unusable(mapper.yaml_path)) =>
            /\ (Called("get_genre_display_name") /\ last.genre_code.t = "str")
                    => Returned(last.out)
            /\ Called("format_field_value") => Returned(last.out)

\* the claimed fallback rendering, position by position: an underscore
\* becomes a space, the first letter of each word is upper case and its
\* other letters are lower case, every other character is kept
FallbackRendering(code, shown) ==
    /\ Len(shown) = Len(code)
    /\ \A i \in DOMAIN code :
        IF code[i] = "_" THEN shown[i] = " "
        ELSE IF ~IsCased(code[i]) THEN shown[i] = code[i]
        ELSE IF i = 1 \/ ~IsCased(code[i - 1])
        THEN IsUpper(shown[i]) /\ ToLower(shown[i]) = ToLower(code[i])
        ELSE IsLower(shown[i]) /\ ToLower(shown[i]) = ToLower(code[i])

\* C5: get_genre_display_name never fails; it returns the configured name of
\* a code of the taxonomy and the fallback rendering of any other code.
C5_GenreDisplayName ==
    (Called("get_genre_display_name") /\ last.genre_code.t = "str") =>
        /\ Returned(last.out)
        /\ IsDict(mapper.genre_mapping)
                /\ last.genre_code.s \in DOMAIN mapper.genre_mapping.m
            => last.out.v = mapper.genre_mapping.m[last.genre_code.s]
        /\ ~(IsDict(mapper.genre_mapping)
                /\ last.genre_code.s \in DOMAIN mapper.genre_mapping.m)
            => /\ last.out.v.t = "str"
               /\ FallbackRendering(last.genre_code.s, last.out.v.s)

NullOrEmptyValue(value) == value = PyNone \/ value = PyStr(<<>>)

\* C6: for a None or empty-string value, on any field name, with or without
\* a rule, format_field_value returns exactly "N/A".
C6_NullIsNA ==
    (Called("format_field_value") /\ NullOrEmptyValue(last.value)) =>
        last.out = Return(PyStr(TxtNA))

\* C6 witnesses: None on a field with a rule, "" on a field without one
C6_Witness ==
    /\ Called("format_field_value")
    /\ last.value = PyStr(<<>>)
    /\ last.field_name = "unknownColumn"
    /\ ~HasFieldSpec(mapper, last.field_name)
    /\ HasFieldSpec(mapper, "price")
    /\ last.out = Return(PyStr(TxtNA))

(***************************************************************************)
(* Reading a formatted number back.                                        *)
(***************************************************************************)
\* text is [-]digits.digits with `decimals` digits after the point and no
\* needless leading zero
IsFixed(text, decimals) ==
    LET body == IF text # <<>> /\ text[1] = "-" THEN Tail(text) ELSE text
        dot == Len(body) - decimals
    IN  /\ dot >= 2
        /\ body[dot] = "."
        /\ \A i \in DOMAIN body : i # dot => IsDigit(body[i])
        /\ dot > 2 => body[1] # "0"

\* the number a fixed text denotes, in units of the last decimal place
FixedValue(text, decimals) ==
    LET body == IF text[1] = "-" THEN Tail(text) ELSE text
        dot == Len(body) - decimals
        magnitude == DigitsVal(SubSeq(body, 1, dot - 1)
                                \o SubSeq(body, dot + 1, Len(body)))
    IN  IF text[1] = "-" THEN -magnitude ELSE magnitude

\* text is [-]ddd,ddd,ddd: a comma before every group of three digits
IsGrouped(text) ==
    LET body == IF text # <<>> /\ text[1] = "-" THEN Tail(text) ELSE text
    IN  /\ body # <<>>
        /\ \A i \in DOMAIN body :
            IF (Len(body) - i + 1) % 4 = 0 THEN body[i] = "," ELSE IsDigit(body[i])
        /\ Len(body) > 1 => body[1] # "0"

RECURSIVE WithoutCommas(_)
WithoutCommas(text) ==
    IF text = <<>> THEN <<>>
    ELSE IF text[1] = "," THEN WithoutCommas(Tail(text))
    ELSE <<text[1]>> \o WithoutCommas(Tail(text))

GroupedValue(text) ==
    IF text[1] = "-" THEN -DigitsVal(WithoutCommas(Tail(text)))
    ELSE DigitsVal(WithoutCommas(text))

\* v is an int or a finite float
FiniteNumber(v) == v.t = "int" \/ (v.t = "float" /\ v.k = "fin")

\* the value of a finite number, in tenths
Tenths(v) == IF v.t = "float" THEN v.n ELSE 10 * v.n

HasRule(field_name) == mapper.built /\ field_name \in DOMAIN mapper.field_specs

Formatted(field_name) ==
    /\ Called("format_field_value")
    /\ last.field_name = field_name
    /\ ~NullOrEmptyValue(last.value)

ReturnsText(out) == Returned(out) /\ out.v.t = "str"

ReturnsStr(out, v) == out = Return(PyStr(StrOf(v)))

\* "$" followed by the number with two decimals
IsCurrency(out, tenths) ==
    /\ ReturnsText(out)
    /\ out.v.s # <<>> /\ out.v.s[1] = "$"
    /\ IsFixed(Tail(out.v.s), 2)
    /\ FixedValue(Tail(out.v.s), 2) = 10 * tenths

\* C7 as stated: "$" and two decimals for every (finite) number, the text
\* unchanged for a text that is no number -- whatever rules the mapper holds.
C7_PriceAlwaysCurrency ==
    Formatted("price") =>
        /\ FiniteNumber(last.value) => IsCurrency(last.out, Tenths(last.value))
        /\ last.value = PyStr(TxtAbc) => last.out = Return(last.value)

\* C7 amended: when price has a rule, format_field_value("price", v) returns
\* "$" followed by v with two decimals for every v that float() converts to a
\* finite number, "$nan", "$inf" or "$-inf" for one it converts to a
\* non-finite number, and v unchanged for a text float() rejects; when price
\* has no rule it returns str(v) for every non-empty v.  It never raises.
C7_PriceWithRule ==
    Formatted("price") =>
        IF ~HasRule("price") THEN ReturnsStr(last.out, last.value)
        ELSE IF FloatOf(last.value).exc # "none"
        THEN last.value.t = "str" /\ last.out = Return(last.value)
        ELSE LET x == FloatOf(last.value).x
             IN  /\ FiniteNumber(last.value) => x.n = Tenths(last.value)
                 /\ x.k = "fin" => IsCurrency(last.out, x.n)
                 /\ x.k = "nan" => last.out = Return(PyStr(<<"$","n","a","n">>))
                 /\ x.k = "inf" => last.out = Return(PyStr(<<"$","i","n","f">>))
                 /\ x.k = "ninf" =>
                        last.out = Return(PyStr(<<"$","-","i","n","f">>))

\* C7 witness: 12.3 on a mapper with a price rule gives "$12.30"
C7_Witness ==
    /\ Formatted("price") /\ HasRule("price")
    /\ last.value = PyFloat(123)
    /\ last.out = Return(PyStr(<<"$","1","2",".","3","0">>))

LeadingGlyphs(text) ==
    Cardinality({i \in DOMAIN text : \A j \in 1..i : text[j] = StarGlyph})

\* the glyph floor(r) times (none for r below 1), a space, r to one decimal
IsRating(out, tenths) ==
    /\ ReturnsText(out)
    /\ LET stars == LeadingGlyphs(out.v.s)
           rest == SubSeq(out.v.s, stars + 2, Len(out.v.s))
       IN  /\ stars = (IF tenths >= 0 THEN tenths \div 10 ELSE 0)
           /\ Len(out.v.s) >= stars + 1 /\ out.v.s[stars + 1] = " "
           /\ IsFixed(rest, 1)
           /\ FixedValue(rest, 1) = tenths

IsCount(out, n) ==
    /\ ReturnsText(out)
    /\ IsGrouped(out.v.s)
    /\ GroupedValue(out.v.s) = n

\* the integer part of a value held in tenths
WholePart(tenths) ==
    IF tenths >= 0 THEN tenths \div 10 ELSE -((-tenths) \div 10)

FlagLabel(field_name, flag) ==
    IF field_name = "isTrad"
    THEN (IF flag THEN <<"Y","e","s">> ELSE <<"N","o">>)
    ELSE (IF flag THEN <<"F","r","e","e">> ELSE <<"P","a","i","d">>)

FormattedFlag ==
    /\ Called("format_field_value")
    /\ last.field_name \in {"isTrad", "isFree"}
    /\ ~NullOrEmptyValue(last.value)

\* C10 as stated: a boolean maps to the field's label pair, any other value
\* to str(value) -- whatever rules the mapper holds.
C10_FlagAlwaysLabelled ==
    FormattedFlag =>
        IF last.value.t = "bool"
        THEN last.out = Return(PyStr(FlagLabel(last.field_name, last.value.n = 1)))
        ELSE ReturnsStr(last.out, last.value)

\* C10 amended: when the flag field (isTrad, isFree) has a rule,
\* format_field_value maps True and False to the field's label pair (Yes/No,
\* Free/Paid; False is not rendered as N/A) and any other non-empty value to
\* str(value); when the field has no rule a boolean too is returned as
\* str(value) ("True", "False").
C10_FlagWithRule ==
    FormattedFlag =>
        IF HasRule(last.field_name) /\ last.value.t = "bool"
        THEN last.out = Return(PyStr(FlagLabel(last.field_name, last.value.n = 1)))
        ELSE ReturnsStr(last.out, last.value)

\* C10 witness: False on a mapper with an isFree rule gives "Paid"
C10_Witness ==
    /\ FormattedFlag /\ HasRule("isFree")
    /\ last.field_name = "isFree"
    /\ last.value = PyBool(FALSE)
    /\ last.out = Return(PyStr(<<"P","a","i","d">>))
(***************************************************************************)
(* Reading a delimited list: the tokens between the cuts, by position.     *)
(***************************************************************************)
Max(S) == CHOOSE x \in S : \A y \in S : x >= y

\* the positions of sep in text, with the two ends
Cuts(text, sep) == {0, Len(text) + 1} \cup {i \in DOMAIN text : text[i] = sep}

\* the k-th cut from the left
CutAt(text, sep, k) ==
    CHOOSE p \in Cuts(text, sep) :
        Cardinality({q \in Cuts(text, sep) : q < p}) = k - 1

\* the text without its leading and trailing white space
Trimmed(text) ==
    LET solid == {i \in DOMAIN text : ~IsSpace(text[i])}
    IN  IF solid = {} THEN <<>> ELSE SubSeq(text, Min(solid), Max(solid))

\* the trimmed tokens of text between the occurrences of sep, in order
Tokens(text, sep) ==
    [k \in 1..(Cardinality(Cuts(text, sep)) - 1) |->
        Trimmed(SubSeq(text, CutAt(text, sep, k) + 1,
                       CutAt(text, sep, k + 1) - 1))]

NonEmpty(text) == text # <<>>

\* the delimiter a text is split on: "|" before "#", "" when it has neither
Delimiter(text) ==
    IF Contains(text, "|") THEN "|" ELSE IF Contains(text, "#") THEN "#" ELSE ""

FormattedList ==
    /\ Called("format_field_value")
    /\ last.field_name \in {"topicTags", "subcatsList"}
    /\ last.value.t = "str" /\ last.value.s # <<>>

\* C11 as stated: a text with a delimiter comes back as all its trimmed
\* tokens joined with ", ", a text without one unchanged -- whatever rules
\* the mapper holds and whether or not a token is empty.
C11_ListAlwaysSplit ==
    FormattedList =>
        IF Delimiter(last.value.s) = "" THEN last.out = Return(last.value)
        ELSE last.out = Return(PyStr(Join(Tokens(last.value.s,
                                                 Delimiter(last.value.s)))))

\* C11 amended: when the list field (topicTags, subcatsList) has a rule,
\* format_field_value splits a text on "|" if it contains one, else on "#"
\* if it contains one, trims each token, drops the tokens that are empty
\* after trimming and joins the others with ", "; a text with neither
\* delimiter is returned unchanged.  When the field has no rule every
\* non-empty text is returned unchanged.
C11_ListWithRule ==
    FormattedList =>
        IF ~HasRule(last.field_name) \/ Delimiter(last.value.s) = ""
        THEN last.out = Return(last.value)
        ELSE last.out =
                Return(PyStr(Join(SelectSeq(Tokens(last.value.s,
                                                   Delimiter(last.value.s)),
                                            NonEmpty))))

\* C11 witness: "a#b|c" on a mapper with a topicTags rule is split on "|"
C11_Witness ==
    /\ FormattedList /\ HasRule("topicTags")
    /\ last.field_name = "topicTags"
    /\ last.value = PyStr(TxtBoth)
    /\ last.out = Return(PyStr(<<"a","#","b",","," ","c">>))
(***************************************************************************)
(* Reading an author reference: a link by the positions of its brackets.   *)
(***************************************************************************)
\* text holds "[" at i, the first "]" after it at a, "(" right after, and
\* the first ")" after that at b, with at least one character in each pair
LinkSpan(text, i, a, b) ==
    /\ text[i] = "[" /\ a > i + 1 /\ text[a] = "]"
    /\ \A j \in (i + 1)..(a - 1) : text[j] # "]"
    /\ a + 1 <= Len(text) /\ text[a + 1] = "("
    /\ b > a + 2 /\ text[b] = ")"
    /\ \A j \in (a + 2)..(b - 1) : text[j] # ")"

LinkPositions(text) ==
    {i \in DOMAIN text : \E a, b \in DOMAIN text : LinkSpan(text, i, a, b)}

HoldsLink(text) == LinkPositions(text) # {}

\* name and url are the bracketed and the parenthesized text of the link
\* that starts at position i
ReadsLink(text, i, name, url) ==
    \E a, b \in DOMAIN text :
        /\ LinkSpan(text, i, a, b)
        /\ name = PyStr(SubSeq(text, i + 1, a - 1))
        /\ url = PyStr(SubSeq(text, a + 2, b - 1))

Extracted == Called("extract_author_info")

ExtractedText == Extracted /\ last.author_text.t = "str"

TxtJaneUrl == SubSeq(TxtJaneLink, 12, Len(TxtJaneLink) - 1)

\* C12: for a text that holds a [name](url) link, extract_author_info
\* returns the bracketed text as the name and the parenthesized text as the
\* URL; "[Jane Doe](http://example.com/B00ABCDEFG)" gives
\* ("Jane Doe", "http://example.com/B00ABCDEFG", "B00ABCDEFG").
C12_LinkNameAndUrl ==
    /\ (ExtractedText /\ HoldsLink(last.author_text.s)) =>
            /\ Returned(last.out)
            /\ \E i \in DOMAIN last.author_text.s :
                    ReadsLink(last.author_text.s, i, last.out.v.name,
                              last.out.v.url)
    /\ (Extracted /\ last.author_text = PyStr(TxtJaneLink)) =>
            last.out = Return(AuthorInfo(PyStr(TxtJaneDoe), PyStr(TxtJaneUrl),
                                         PyStr(TxtId)))

\* C12 witness: two links in one text, the URL ends at its own ")"
C12_Witness ==
    /\ Extracted
    /\ last.author_text =
            PyStr(Link(<<"a">>, <<"/">> \o TxtId) \o <<",", " ">>
                    \o Link(<<"b">>, <<"/">> \o TxtLongId))
    /\ last.out.v.name = PyStr(<<"a">>)
    /\ last.out.v.url = PyStr(<<"/">> \o TxtId)

\* the path of a URL without one closing "/"
PathOf(url) ==
    IF url # <<>> /\ url[Len(url)] = "/" THEN SubSeq(url, 1, Len(url) - 1)
    ELSE url

\* the text after the last "/" of the path
TrailingSegment(url) ==
    LET path == PathOf(url)
        slashes == {i \in DOMAIN path : path[i] = "/"}
    IN  SubSeq(path, Max(slashes) + 1, Len(path))

IsToken(seg) == Len(seg) >= 10 /\ \A i \in DOMAIN seg : IsIdChar(seg[i])

\* the catalog id the claim gives a URL
ClaimedId(url) ==
    IF Contains(PathOf(url), "/") /\ IsToken(TrailingSegment(url))
    THEN PyStr(TrailingSegment(url))
    ELSE PyNone

\* C13: the catalog id of the extracted URL is its trailing path segment
\* (one closing "/" allowed) when that segment is 10 or more characters, all
\* upper-case letters or digits, and is None in every other case.
C13_TrailingSegmentId ==
    (Extracted /\ Returned(last.out) /\ last.out.v.url # PyNone) =>
        last.out.v.isbn = ClaimedId(last.out.v.url.s)

\* C14: for a non-empty text that holds no link, extract_author_info returns
\* the text unchanged as the name, with no URL and no catalog id.
C14_NoLinkUnchanged ==
    (ExtractedText /\ last.author_text.s # <<>>
        /\ ~HoldsLink(last.author_text.s)) =>
        last.out = Return(AuthorInfo(last.author_text, PyNone, PyNone))

\* C14 witness: a padded text without a link comes back with its padding
C14_Witness ==
    /\ Extracted
    /\ last.author_text = PyStr(TxtPadded)
    /\ last.out = Return(AuthorInfo(PyStr(<<" ", "7", " ">>), PyNone, PyNone))

TxtUnknownAuthor == <<"U","n","k","n","o","w","n"," ","A","u","t","h","o","r">>

\* C15: for None and for the empty text extract_author_info returns
\* ("Unknown Author", None, None).
C15_AbsentIsUnknown ==
    (Extracted /\ last.author_text \in {PyNone, PyStr(<<>>)}) =>
        last.out = Return(AuthorInfo(PyStr(TxtUnknownAuthor), PyNone, PyNone))

\* C15 witness: the empty text
C15_Witness ==
    /\ Extracted
    /\ last.author_text = PyStr(<<>>)
    /\ last.out.v.name = PyStr(TxtUnknownAuthor)
    /\ last.out.v.url = PyNone /\ last.out.v.isbn = PyNone

\* part occurs in whole
IsPartOf(part, whole) ==
    \E i \in 1..(Len(whole) + 1) :
        /\ i + Len(part) - 1 <= Len(whole)
        /\ SubSeq(whole, i, i + Len(part) - 1) = part

\* C16: for a text that holds several links extract_author_info returns
\* (it does not raise); the name and the URL are those of the leftmost link
\* and the catalog id is None or a part of that link's URL.
C16_FirstLinkOnly ==
    (ExtractedText /\ Cardinality(LinkPositions(last.author_text.s)) >= 2) =>
        /\ Returned(last.out)
        /\ ReadsLink(last.author_text.s, Min(LinkPositions(last.author_text.s)),
                     last.out.v.name, last.out.v.url)
        /\ \/ last.out.v.isbn = PyNone
           \/ /\ last.out.v.isbn.t = "str"
              /\ IsPartOf(last.out.v.isbn.s, last.out.v.url.s)

\* C16 witness: the second link carries a catalog id, the first does not
C16_Witness ==
    /\ Extracted
    /\ last.author_text =
            PyStr(Link(<<"a">>, <<"u">>) \o Link(<<"b">>, <<"/">> \o TxtId))
    /\ last.out = Return(AuthorInfo(PyStr(<<"a">>), PyStr(<<"u">>), PyNone))
(***************************************************************************)
(* Reading an enhanced record.                                             *)
(***************************************************************************)
Enhanced == Called("get_enhanced_book_data") /\ Returned(last.out)

DerivedKeys == {"genre_display", "author_name", "author_url", "author_isbn"}

\* the value a field of the record holds when the formatting pass reads it:
\* the raw value, or the derived value for a derived key
ValueRead(field) ==
    IF field \in DerivedKeys THEN last.out.v[field] ELSE last.book_data[field]

\* key is in the returned record exactly if the raw record had it, with the
\* raw record's value
NotAdded(key) ==
    /\ key \in DOMAIN last.out.v <=> key \in DOMAIN last.book_data
    /\ key \in DOMAIN last.book_data => last.out.v[key] = last.book_data[key]

C18_GenreDisplaySet ==
    Enhanced =>
        IF "genre" \in DOMAIN last.book_data
        THEN LET code == last.book_data["genre"]
                 shown == last.out.v["genre_display"]
             IN  /\ "genre_display" \in DOMAIN last.out.v
                 /\ code.t = "str"
                 /\ Return(shown) = get_genre_display_name(mapper, code)
                 /\ IF code.s \in DOMAIN mapper.genre_mapping.m
                    THEN shown = mapper.genre_mapping.m[code.s]
                    ELSE shown.t = "str" /\ FallbackRendering(code.s, shown.s)
        ELSE NotAdded("genre_display")

\* C18 witness: a code the taxonomy does not hold, on a mapper with a taxonomy
C18_Witness ==
    /\ Enhanced
    /\ mapper.genre_mapping = PyDict(GenreTable)
    /\ last.book_data = [genre |-> PyStr(TxtRomance)]
    /\ last.out.v["genre_display"] = PyStr(<<"R","o","m","a","n","c","e">>)

\* C19: when the raw record has an Author, the returned record's
\* author_name, author_url and author_isbn are the three components
\* extract_author_info returns for that value; when it has none, none of
\* the three keys is added.
C19_AuthorFieldsSet ==
    Enhanced =>
        IF "Author" \in DOMAIN last.book_data
        THEN LET info == extract_author_info(last.book_data["Author"])
             IN  /\ {"author_name", "author_url", "author_isbn"}
                        \subseteq DOMAIN last.out.v
                 /\ info = Return(AuthorInfo(last.out.v["author_name"],
                                             last.out.v["author_url"],
                                             last.out.v["author_isbn"]))
        ELSE /\ NotAdded("author_name")
             /\ NotAdded("author_url")
             /\ NotAdded("author_isbn")

\* C19 witness: the link of the example in the Author column
C19_Witness ==
    /\ Enhanced
    /\ last.book_data = [Author |-> PyStr(TxtJaneLink)]
    /\ last.out.v["author_name"] = PyStr(TxtJaneDoe)
    /\ last.out.v["author_url"] = PyStr(TxtJaneUrl)
    /\ last.out.v["author_isbn"] = PyStr(TxtId)
(***************************************************************************)
(* Reading an augmented frame.                                             *)
(***************************************************************************)
Calculated == Called("calculate_market_metrics") /\ Returned(last.out)

\* the rows of a genre set: every genre counted holds at least one book
IsGenreSet(frame) ==
    \A i \in DOMAIN frame.rows : frame.rows[i]["book_count"].num >= 1

\* C20: for a genre set of one row (a genre that holds at least one book),
\* the competition_level calculate_market_metrics assigns to the row is
\* exactly 100.
C20_SingleGenreIs100 ==
    (Calculated /\ Len(last.df.rows) = 1 /\ IsGenreSet(last.df)) =>
        /\ Len(df.rows) = 1
        /\ "competition_level" \in df.columns
        /\ df.rows[1]["competition_level"] = Whole(100)

\* C20 witness: one genre of two books
C20_Witness ==
    /\ Calculated
    /\ Len(last.df.rows) = 1
    /\ last.df.rows[1]["book_count"] = Whole(2)
    /\ df.rows[1]["competition_level"] = [k |-> "fin", num |-> 100, den |-> 1]

\* the row set was augmented before this call
Recalculated == Calculated /\ DerivedColumns \subseteq last.df.columns

\* C21: a call on a row set that an earlier call has augmented returns the
\* row set with identical values in every column, and every call leaves
\* the genre and the four base columns of every row as they were.
C21_Idempotent ==
    /\ Calculated =>
            /\ Len(df.rows) = Len(last.df.rows)
            /\ \A i \in DOMAIN df.rows :
                \A column \in BaseColumns \cup {"genre"} :
                    df.rows[i][column] = last.df.rows[i][column]
    /\ Recalculated => df = last.df

\* C21 witness: a second call on two rows with finite derived values
C21_Witness ==
    /\ Recalculated
    /\ Len(df.rows) = 2
    /\ \A i \in DOMAIN df.rows :
            /\ df.rows[i]["entry_difficulty"].k = "fin"
            /\ df.rows[i]["revenue_potential"].num > 0
    /\ df = last.df

HasZeroCount(frame) ==
    \E i \in DOMAIN frame.rows : frame.rows[i]["book_count"] = Whole(0)

\* C22: a call on a row set that holds a row with book_count 0 does not
\* return an augmented row set (the zero is an error, not a divisor).
C22_ZeroCountIsError ==
    (Called("calculate_market_metrics") /\ HasZeroCount(last.df)) =>
        ~Returned(last.out)

\* the greatest book_count of the frame, a whole number
MaxOf(frame, column) ==
    CHOOSE m \in {frame.rows[i][column].num : i \in DOMAIN frame.rows} :
        \A i \in DOMAIN frame.rows : frame.rows[i][column].num <= m

\* value is the fraction num/den
IsFraction(value, num, den) ==
    /\ value.k = "fin"
    /\ value.num * den = num * value.den

CalculatedSet == Calculated /\ last.df.rows # <<>> /\ IsGenreSet(last.df)

\* C23: for a genre set (every book_count >= 1) the competition_level of
\* every row is book_count / max(book_count) * 100, lies in (0, 100], and is
\* exactly 100 for a row with the greatest book_count.
C23_CompetitionLevel ==
    CalculatedSet =>
        \A i \in DOMAIN df.rows :
            LET level == df.rows[i]["competition_level"]
                count == df.rows[i]["book_count"].num
                most == MaxOf(last.df, "book_count")
            IN  /\ IsFraction(level, 100 * count, most)
                /\ level.num > 0 /\ level.num <= 100 * level.den
                /\ count = most => level = Whole(100)

\* C23 witness: genres of one and of two books get 50 and 100
C23_Witness ==
    /\ CalculatedSet
    /\ Len(df.rows) = 2
    /\ df.rows[1]["book_count"] = Whole(1)
    /\ df.rows[2]["book_count"] = Whole(2)
    /\ df.rows[1]["competition_level"] = Whole(50)
    /\ df.rows[2]["competition_level"] = Whole(100)

\* the base columns of a row, as the one-row list of statistics
Alone(row) == <<[column \in BaseColumns |-> row[column]]>>

\* C24: for a genre set the market_opportunity of every row is
\* avg_price * avg_reviews * avg_rating / book_count, the value the row gets
\* when it is the only row of the set.
C24_MarketOpportunity ==
    CalculatedSet =>
        \A i \in DOMAIN df.rows :
            LET row == df.rows[i]
                price == row["avg_price"]
                reviews == row["avg_reviews"]
                rating == row["avg_rating"]
            IN  /\ IsFraction(row["market_opportunity"],
                              price.num * reviews.num * rating.num,
                              price.den * reviews.den * rating.den
                                * row["book_count"].num)
                /\ row["market_opportunity"] =
                        calculate_market_metrics(DataFrame(Alone(row)))
                            .df.rows[1]["market_opportunity"]

\* C24 witness: 2.99 * 10 * 4.5 / 2 = 67.275 beside a row of other values
C24_Witness ==
    /\ CalculatedSet
    /\ Len(df.rows) = 2
    /\ df.rows[1]["book_count"] = Whole(2)
    /\ df.rows[1]["avg_price"] = Frac(299, 100)
    /\ df.rows[1]["avg_reviews"] = Whole(10)
    /\ df.rows[2]["avg_reviews"] = Whole(250)
    /\ df.rows[1]["market_opportunity"] = [k |-> "fin", num |-> 2691, den |-> 40]

MethodNames ==
    {"get_genre_display_name", "get_field_spec", "format_field_value",
     "extract_author_info", "get_enhanced_book_data", "get_card_display_config"}

\* C27: a step that is a call of one of the six methods on a constructed
\* DataMapper, whether it returns or raises, leaves genre_mapping,
\* field_specs and mapping as they were.
C27_TablesReadOnly ==
    [][(mapper.built /\ last'.op \in MethodNames) =>
            /\ mapper'.built
            /\ mapper'.genre_mapping = mapper.genre_mapping
            /\ mapper'.field_specs = mapper.field_specs
            /\ mapper'.mapping = mapper.mapping]_vars

\* C27 witness: an enhancement that used rules and a taxonomy has returned
C27_Witness ==
    /\ Enhanced
    /\ mapper.genre_mapping = PyDict(GenreTable)
    /\ "price" \in DOMAIN mapper.field_specs
    /\ "price_formatted" \in DOMAIN last.out.v
    /\ "genre_display" \in DOMAIN last.out.v

\* C28: for a field name without a rule and a value that is neither None
\* nor "", format_field_value returns str(value), whatever the field's name.
C28_NoRuleIsPlainText ==
    (Called("format_field_value") /\ ~HasRule(last.field_name)
        /\ ~NullOrEmptyValue(last.value)) =>
        last.out = Return(PyStr(StrOf(last.value)))

\* C28 witness: with an empty rule set 1234567 reviews come back ungrouped
C28_Witness ==
    /\ Called("format_field_value")
    /\ mapper.field_specs = <<>>
    /\ last.field_name = "nReviews"
    /\ last.value = PyInt(1234567)
    /\ last.out = Return(PyStr(<<"1","2","3","4","5","6","7">>))

(***************************************************************************)
(* The module-level mapper over a sequence of get_data_mapper calls.       *)
(***************************************************************************)
\* C26: over any sequence of get_data_mapper calls DataMapper() runs (and
\* the mapping document is read) at most once, and every call returns the
\* instance made by that one construction.
C26_ConstructedOnce ==
    /\ registry.constructions <= 1
    /\ registry.returned \subseteq {1}
    /\ Called("get_data_mapper") =>
          /\ Returned(last.out)
          /\ last.out.v = registry._data_mapper
          /\ last.out.v.instance = 1

\* the document on disk is one DataMapper() completes on
Constructible == DataMapperInit(registry.document).exc = "none"

\* with such a document the calls after the first construct nothing and
\* return the first call's instance
C26_OnceWhenConstructible == Constructible => C26_ConstructedOnce

\* the third call has returned the instance of the first
C26_WitnessConstructible ==
    /\ Constructible
    /\ registry.calls = 3
    /\ registry.constructions = 1
    /\ Called("get_data_mapper")
    /\ last.out.v.instance = 1

(***************************************************************************)
(* The frames show_analytics passes to the calculator.                     *)
(***************************************************************************)
Passed == Called("show_analytics") /\ last.calculated

\* C29: every frame show_analytics passes to calculate_market_metrics is
\* non-empty, has book_count >= 1 in every row, and has a non-zero greatest
\* book_count and a non-zero greatest avg_reviews.
C29_PreconditionMet ==
    Passed =>
        /\ last.passed.rows # <<>>
        /\ \A i \in DOMAIN last.passed.rows :
                FLeq(Whole(1), last.passed.rows[i]["book_count"])
        /\ MaxOf(last.passed, "book_count") # 0
        /\ MaxOf(last.passed, "avg_reviews") # 0

\* the part of the precondition the query guarantees: a non-empty frame
\* whose every book_count is at least 1
C29_CountsPositive ==
    Passed =>
        /\ last.passed.rows # <<>>
        /\ \A i \in DOMAIN last.passed.rows :
                FLeq(Whole(1), last.passed.rows[i]["book_count"])
        /\ MaxOf(last.passed, "book_count") # 0

\* two genres of one book each were passed
C29_WitnessCounts ==
    /\ Passed
    /\ Len(last.passed.rows) = 2
    /\ last.passed.rows[2]["book_count"] = Whole(1)

(***************************************************************************)
(* The connection of a BookDatabase over a sequence of calls.              *)
(***************************************************************************)
\* C30: over any sequence of connect, disconnect, with entry/exit and
\* execute_query calls: a query is executed on a connection, never on None
\* (one is opened first when none is held); after disconnect and after a
\* with block is left, normally or by an exception, conn is None; disconnect
\* on a handle without a connection changes nothing; and a query that fails
\* raises its error and leaves the connection it ran on in place.
C30_ConnectionLifecycle ==
    /\ (Called("execute_query") /\ last.ran) =>
            /\ last.ran_on # PyNone
            /\ last.before.conn # PyNone => last.ran_on = last.before.conn
            /\ last.before.conn = PyNone =>
                    last.ran_on = Connection(last.before.opened + 1)
    /\ (Called("disconnect") \/ Called("__exit__")) => db.conn = PyNone
    /\ (Called("disconnect") /\ last.before.conn = PyNone) =>
            db = last.before /\ Returned(last.out)
    /\ (Called("execute_query") /\ last.ran /\ ~Runs(last.query)) =>
            /\ last.out = Raise("duckdb.Error")
            /\ db.conn = last.ran_on
            /\ db.conn # PyNone

\* C30 witness: a with block entered on a handle, a query that connected
\* again after a disconnect inside it and failed, the connection still held
C30_Witness ==
    /\ Called("execute_query")
    /\ last.before.conn = PyNone
    /\ last.before.blocks = 1
    /\ last.ran
    /\ ~Returned(last.out)
    /\ db.conn = Connection(2)
====
